---------------------------- MODULE Spec2Model ----------------------------
(***************************************************************************)
(* A model of the RTEMS linker host tools' file cache (rld-files.cpp) and  *)
(* RAP image builder (rld-rap.cpp).                                        *)
(*                                                                         *)
(* The module holds several specifications over one set of variables:      *)
(*   SpecImage    images of their own under open and close                 *)
(*   Spec         the cache, its archives and objects, and their users     *)
(*   SpecShare    the members of one archive open it, then close it        *)
(*   SpecArchive  an archive and its members in the hands of their users   *)
(*   SpecAr       archive::create, then archive::load_objects              *)
(*   SpecFold     rap::section::operator +=                                *)
(*   SpecRap      rap::image::layout, then rap::image::write               *)
(*   SpecCollect  cache::collect_object_files on one path                  *)
(*   SpecDestroy  an image, an archive and an object opened and deleted    *)
(*   SpecCopy     copy_file                                                *)
(*   SpecPaths    cache::add, cache::open and cache::get_objects           *)
(*   SpecOwn      cache::add, cache::open and cache::close                 *)
(*   SpecLoad     archive::load_objects on archive files of all kinds      *)
(*   SpecName     the constructors of archive and object                   *)
(*   SpecSet      file::set on paths with and without ':'                  *)
(*   SpecSelect   rap::object::object over the sections of an ELF file     *)
(*   SpecSymbols  cache::load_symbols on an opened cache                   *)
(*   SpecStream   seek and read through the members of an open archive     *)
(*   SpecScan     archive::load_objects, one loop iteration at a time      *)
(*   SpecLibs     cache::add, cache::add_libraries and cache::open         *)
(* Each specification keeps the variables of the others at their idle      *)
(* values.                                                                 *)
(***************************************************************************)
EXTENDS Integers, Sequences, FiniteSets, TLC

(***************************************************************************)
(* Bounds of the model.                                                    *)
(***************************************************************************)
\* image::open is not called on an image that already has this many references.
MaxRefs == 2
\* cache::add is not called on a cache that already has this many paths.
MaxPaths == 2
\* The archive of the sharing scenario has up to this many members.
MaxShare == 5
\* No archive or object is created once the cache has created this many.
MaxHeap == 6
\* archive::create is given up to this many objects.
MaxMembers == 2
\* The sections folded have sizes, offsets and alignments up to these.
MaxSecSize == 3
MaxSecOffset == 1
MaxAlign == 3
\* No section is folded into a group that would grow beyond this size.
MaxGroupSize == 6
\* An image is laid out over up to this many objects, of up to this many
\* external symbols in all.
MaxRapObjs == 2
MaxSyms == 2
\* copy_file is asked for up to this many bytes, of inputs up to this long.
MaxCopy == 4
\* COPY_FILE_BUFFER_SIZE, scaled down from 8 * 1024 so that a copy takes
\* more than one round of the loop.
COPY_FILE_BUFFER_SIZE == 2
\* load_objects is given archive files of up to this many members.
MaxLoad == 3
\* No archive or object is constructed once this many have been.
MaxNamed == 3

VARIABLES
  heap,      \* every files::image, files::archive and files::object
             \* created, in the order of creation
  paths_,    \* cache::paths_
  archives_, \* cache::archives_: path -> the archive (its place in heap)
  objects_,  \* cache::objects_: full name -> the object (its place in heap)
  opened,    \* cache::opened
  disk,      \* the files on disk: path -> bytes
  os_fds,    \* the descriptors the OS has open: a set of <<fd, path>>
  last,      \* what the last call did: the call, the image it went to,
             \* that image's references_ and fd_ before it, the ::open and
             \* ::close calls it made, the error it threw, the object list
             \* it filled, the images it deleted in the order it did;
             \* for a call that works on no image, its arguments and
             \* what it returned
  sc,        \* the sharing scenario of SpecShare: its phase and the system
             \* calls made on the archive's file so far
  ar,        \* the archive of SpecAr: the objects it is created from, and
             \* what load_objects finds in the file written; in SpecScan
             \* the variables of a running load_objects
  fold,      \* the section group of SpecFold, and the fold last made
  rap,       \* the rap::image of SpecRap, and the stream written
  cp         \* the copy_file call of SpecCopy: its files, its buffer, and
             \* how it ended

vars ==
  <<heap, paths_, archives_, objects_, opened, disk, os_fds, last, sc, ar,
    fold, rap, cp>>

(***************************************************************************)
(* The operating system's descriptor table.                                *)
(***************************************************************************)
\* ::open returns the lowest descriptor that is not in use; 0, 1 and 2 are.
NewFd(fds) ==
  CHOOSE fd \in 3 .. (3 + Cardinality(fds)) :
    /\ \A e \in fds : e[1] # fd
    /\ \A lower \in 3 .. (fd - 1) : \E e \in fds : e[1] = lower

\* ::close (fd) releases the descriptor; ::close (-1) fails with EBADF.
OsClose(fds, fd) == { e \in fds : e[1] # fd }

FdsOf(fds, path) == { e \in fds : e[2] = path }

(***************************************************************************)
(* Bytes.  A byte is a one-character string; "NUL" is the zero byte and    *)
(* "0x60" the byte 0x60.  A name, a path and a file's contents are         *)
(* sequences of bytes.                                                     *)
(***************************************************************************)
DigitChars == <<"0", "1", "2", "3", "4", "5", "6", "7", "8", "9">>

IsDigit(c) == \E i \in 1 .. 10 : DigitChars[i] = c

\* The printable characters in the order of their codes, from 32 on; "0x60"
\* and "0x7f" stand for the bytes of those codes.
Ascii ==
  <<" ", "!", "\"", "#", "$", "%", "&", "'", "(", ")", "*", "+", ",", "-", ".",
    "/", "0", "1", "2", "3", "4", "5", "6", "7", "8", "9", ":", ";", "<", "=",
    ">", "?", "@", "A", "B", "C", "D", "E", "F", "G", "H", "I", "J", "K", "L",
    "M", "N", "O", "P", "Q", "R", "S", "T", "U", "V", "W", "X", "Y", "Z", "[",
    "\\", "]", "^", "_", "0x60", "a", "b", "c", "d", "e", "f", "g", "h", "i",
    "j", "k", "l", "m", "n", "o", "p", "q", "r", "s", "t", "u", "v", "w", "x",
    "y", "z", "{", "|", "}", "~", "0x7f">>

\* The code of a byte.
ByteCode(c) ==
  IF c = "NUL" THEN 0
  ELSE IF c = "\n" THEN 10
  ELSE 31 + (CHOOSE i \in 1 .. Len(Ascii) : Ascii[i] = c)

\* *string - '0': the digit's value for a digit, and for another byte its
\* code less that of '0' (so '/' counts -1).  The uint64_t it is added to
\* wraps; a number here stands for the value that is equal to it modulo 2^64,
\* a negative one for a value just below 2^64.
DigitValue(c) ==
  IF IsDigit(c) THEN (CHOOSE i \in 1 .. 10 : DigitChars[i] = c) - 1
  ELSE ByteCode(c) - 48

RECURSIVE Digits(_, _)
\* The digits of value in the base, most significant first (operator << of
\* std::ostringstream, after std::oct for base 8).
Digits(value, base) ==
  IF value < base
  THEN <<DigitChars[value + 1]>>
  ELSE Digits(value \div base, base) \o <<DigitChars[(value % base) + 1]>>

Min(a, b) == IF a < b THEN a ELSE b

Take(s, n) == SubSeq(s, 1, Min(n, Len(s)))
Drop(s, n) == SubSeq(s, n + 1, Len(s))

Spaces(n) == [i \in 1 .. n |-> " "]

\* memcpy of at most len bytes of s over a field of len spaces.
Field(s, len) == Take(s, len) \o Spaces(len - Min(len, Len(s)))

RECURSIVE scan_decimal_from(_, _, _)
scan_decimal_from(string, len, value) ==
  IF len = 0 \/ string = <<>> \/ Head(string) = " "
  THEN value
  ELSE scan_decimal_from(Tail(string), len - 1,
                         value * 10 + DigitValue(Head(string)))

\* scan_decimal (string, len): the decimal number at the front of string, up
\* to len bytes or the first space.
scan_decimal(string, len) == scan_decimal_from(string, len, 0)

\* set_number (value, string, len, octal): the bytes it copies into the field.
set_number(value, len, octal) ==
  Take(Digits(value, IF octal THEN 8 ELSE 10), len)

RECURSIVE LastIndexOf(_, _)
\* std::string::find_last_of (c): the last position (from 1) of c, or 0.
LastIndexOf(s, c) ==
  IF s = <<>> THEN 0
  ELSE IF s[Len(s)] = c THEN Len(s)
  ELSE LastIndexOf(SubSeq(s, 1, Len(s) - 1), c)

\* basename (name): what follows the last path separator.
basename(name) ==
  LET b == LastIndexOf(name, "/")
  IN  IF b # 0 THEN Drop(name, b) ELSE name

(***************************************************************************)
(* The ar format (rld_archive_... defines).                                *)
(***************************************************************************)
rld_archive_ident == <<"!", "<", "a", "r", "c", "h", ">", "\n">>
rld_archive_ident_size == 8
rld_archive_fhdr_base == rld_archive_ident_size
rld_archive_fname == 0
rld_archive_fname_size == 16
rld_archive_mtime_size == 12
rld_archive_uid_size == 6
rld_archive_gid_size == 6
rld_archive_mode_size == 8
rld_archive_size == 48
rld_archive_size_size == 10
rld_archive_magic == 58
rld_archive_fhdr_size == 60
rld_archive_max_file_size == 1024

\* The header's magic bytes 0x60, 0x0a.
HeaderMagic == <<"0x60", "\n">>

\* archive::write_header: the 60 bytes it writes.
write_header(name, mtime, uid, gid, mode, size) ==
  Field(name, rld_archive_fname_size)
    \o Field(set_number(mtime, rld_archive_mtime_size, FALSE), rld_archive_mtime_size)
    \o Field(set_number(uid, rld_archive_uid_size, FALSE), rld_archive_uid_size)
    \o Field(set_number(gid, rld_archive_gid_size, FALSE), rld_archive_gid_size)
    \o Field(set_number(mode, rld_archive_mode_size, TRUE), rld_archive_mode_size)
    \o Field(set_number(size, rld_archive_size_size, FALSE), rld_archive_size_size)
    \o HeaderMagic

RECURSIVE extended_names_of(_)
\* archive::create, the first loop: the basenames longer than the header's
\* name field, each followed by a newline.
extended_names_of(objects) ==
  IF objects = <<>> THEN <<>>
  ELSE LET oname == basename(Head(objects).oname)
       IN  (IF Len(oname) > rld_archive_fname_size
            THEN oname \o <<"\n">> ELSE <<>>)
             \o extended_names_of(Tail(objects))

\* std::string::find_first_of (chars): the first position (from 0) of s that
\* holds any one of the bytes of chars, or -1 (npos).
find_first_of(s, chars) ==
  LET hits == { i \in 1 .. Len(s) : \E j \in 1 .. Len(chars) : s[i] = chars[j] }
  IN  IF hits = {} THEN -1
      ELSE (CHOOSE i \in hits : \A k \in hits : i <= k) - 1

\* std::string::find (str): the first position (from 0) at which str occurs in
\* s, or -1.
find_string(s, str) ==
  LET hits == { i \in 1 .. (Len(s) - Len(str) + 1) :
                  SubSeq(s, i, i + Len(str) - 1) = str }
  IN  IF hits = {} THEN -1
      ELSE (CHOOSE i \in hits : \A k \in hits : i <= k) - 1

\* archive::create, the second loop: the name written into a member's header.
stored_name(oname, extended_file_names) ==
  IF Len(oname) > rld_archive_fname_size
  THEN <<"/">> \o Digits(find_first_of(extended_file_names, oname \o <<"\n">>), 10)
  ELSE oname

RECURSIVE create_members(_, _)
\* archive::create, the second loop: per object its header, then its bytes as
\* copy_file moves them.
create_members(objects, extended_file_names) ==
  IF objects = <<>> THEN <<>>
  ELSE LET obj == Head(objects)
           oname == stored_name(basename(obj.oname), extended_file_names)
       IN  write_header(oname, 0, 0, 0, 438, Len(obj.data))
             \o obj.data
             \o create_members(Tail(objects), extended_file_names)

\* archive::create (objects): the bytes of the file it writes when no system
\* call fails.  An object is [oname, data]; its size is the length of data.
create(objects) ==
  LET extended_file_names == extended_names_of(objects)
  IN  rld_archive_ident
        \o (IF extended_file_names # <<>>
            THEN write_header(<<"/", "/">>, 0, 0, 0, 0, Len(extended_file_names))
                   \o extended_file_names
            ELSE <<>>)
        \o create_members(objects, extended_file_names)

(***************************************************************************)
(* archive::load_objects                                                   *)
(***************************************************************************)
\* image::seek_read (offset, buffer, size) on a file holding bytes: the bytes
\* ::read delivers, fewer than size at the end of the file.
read_at(bytes, offset, size) ==
  IF offset >= Len(bytes) THEN <<>>
  ELSE SubSeq(bytes, offset + 1, Min(offset + size, Len(bytes)))

\* archive::read_header (offset, header): "short" on a short read, "magic"
\* when it throws for the magic numbers, else "ok".
read_header(bytes, offset) ==
  LET header == read_at(bytes, offset, rld_archive_fhdr_size)
  IN  IF Len(header) # rld_archive_fhdr_size THEN [is |-> "short", header |-> header]
      ELSE IF header[rld_archive_magic + 1] # "0x60"
               \/ header[rld_archive_magic + 2] # "\n"
      THEN [is |-> "magic", header |-> header]
      ELSE [is |-> "ok", header |-> header]

\* The member size load_objects keeps: the header's size field rounded up to
\* an even number, (n + 1) & ~1.
aligned_size(header) ==
  LET n == scan_decimal(SubSeq(header, rld_archive_size + 1, rld_archive_fhdr_size),
                        rld_archive_size_size)
  IN  ((n + 1) \div 2) * 2

\* archive::add_object, the name: the bytes of path up to the first NUL or
\* '/'.  buffer holds the bytes load_objects put behind path; when none of
\* them ends the name the loop runs on into memory nothing initialised, and
\* beyond holds what it meets there before a NUL or '/'.
object_name(buffer, beyond) ==
  LET ends == { i \in 1 .. Len(buffer) : buffer[i] = "NUL" \/ buffer[i] = "/" }
  IN  IF ends = {} THEN buffer \o beyond
      ELSE Take(buffer, (CHOOSE i \in ends : \A k \in ends : i <= k) - 1)

\* archive::add_object (objs, path, offset, size): the file of the object it
\* registers.
add_object(buffer, beyond, offset, size) ==
  [oname |-> object_name(buffer, beyond), offset |-> offset, size |-> size]

\* load_objects, the inner loop, as it would be were the "//" header looked
\* for only where the scan begins.
find_extended_names_NoScan(bytes, off, header) == 0

RECURSIVE find_extended_names(_, _, _)
\* load_objects, the inner loop: from the header at off, step over members to
\* the "//" header.  The offset of its data, 0 when a header cannot be read,
\* -1 when read_header throws.
find_extended_names(bytes, off, header) ==
  LET next == off + aligned_size(header) + rld_archive_fhdr_size
      rh == read_header(bytes, next)
  IN  IF rh.is = "short" THEN 0
      ELSE IF rh.is = "magic" THEN -1
      ELSE IF rh.header[1] = "/" /\ rh.header[2] = "/"
      THEN next + rld_archive_fhdr_size
      ELSE find_extended_names(bytes, next, rh.header)

RECURSIVE load_objects_from(_, _, _, _, _)
\* load_objects, the outer loop from offset on.  objs: the files registered so
\* far, in the order add_object was called.
load_objects_from(bytes, offset, extended_file_names, objs, beyond) ==
  LET rh == read_header(bytes, offset)
      header == rh.header
      size == aligned_size(header)
      next == offset + size + rld_archive_fhdr_size
      data == offset + rld_archive_fhdr_size
  IN  IF rh.is = "short" THEN [objs |-> objs, threw |-> ""]
      ELSE IF rh.is = "magic"
      THEN [objs |-> objs, threw |-> "Invalid header magic numbers"]
      ELSE IF header[1] # "/"
      THEN load_objects_from(bytes, next, extended_file_names,
                             Append(objs, add_object(header, beyond, data, size)),
                             beyond)
      ELSE IF header[2] = " "
      THEN load_objects_from(bytes, next, extended_file_names, objs, beyond)
      ELSE IF header[2] = "/"
      THEN load_objects_from(bytes, next, data, objs, beyond)
      ELSE IF IsDigit(header[2])
      THEN LET extended_off == scan_decimal(Tail(header), rld_archive_fname_size)
               names == IF extended_file_names = 0
                        THEN find_extended_names(bytes, offset, header)
                        ELSE extended_file_names
               cname == read_at(bytes, names + extended_off,
                                rld_archive_max_file_size)
           IN  IF names = 0
               THEN [objs |-> objs,
                     threw |-> "No GNU extended file name section found"]
               ELSE IF names = -1
               THEN [objs |-> objs, threw |-> "Invalid header magic numbers"]
               ELSE load_objects_from(bytes, next, names,
                                      Append(objs, add_object(cname, beyond, data, size)),
                                      beyond)
      ELSE load_objects_from(bytes, next, extended_file_names, objs, beyond)

\* archive::load_objects (objs) on an archive file holding bytes.
load_objects(bytes, beyond) ==
  load_objects_from(bytes, rld_archive_fhdr_base, 0, <<>>, beyond)

(***************************************************************************)
(* files::file, a value: [aname, oname, offset, size].                     *)
(***************************************************************************)
\* file::path ().
file_path(f) == IF f.aname # <<>> THEN f.aname ELSE f.oname

\* file::full (): "<archive>:<object>@<offset>", "<archive>" or "<object>".
file_full(f) ==
  (IF f.aname # <<>>
   THEN f.aname \o (IF f.oname # <<>> THEN <<":">> ELSE <<>>)
   ELSE <<>>)
    \o (IF f.oname # <<>> THEN f.oname ELSE <<>>)
    \o (IF f.aname # <<>> /\ f.oname # <<>>
        THEN <<"@">> \o Digits(f.offset, 10) ELSE <<>>)

(***************************************************************************)
(* The files on disk and the ELF reader.                                   *)
(***************************************************************************)
\* check_file (path): a regular file exists at path.
check_file(d, path) == path \in DOMAIN d

\* The files that are not regular files: a directory, which ::open opens
\* and ::read fails on, and a device that reads as zero bytes without end.
DirPath == <<"d", "i", "r">>
ZeroPath == <<"z", "e", "r", "o">>
Directories == {DirPath}
Devices == {ZeroPath}

\* ::open (path, O_RDONLY) succeeds on the files that are there.
os_open_ok(d, path) ==
  check_file(d, path) \/ path \in Directories \/ path \in Devices

\* The st_size file::set reads, 0 when stat fails.
stat_size(d, path) == IF path \in DOMAIN d THEN Len(d[path]) ELSE 0

ElfIdent == <<"0x7f", "E", "L", "F">>

\* rld::elf::begin on an object: whether the bytes the object names are an
\* ELF file.
elf_begin_ok(d, f) ==
  /\ file_path(f) \in DOMAIN d
  /\ read_at(d[file_path(f)], f.offset, Len(ElfIdent)) = ElfIdent

\* The order of the bytes, for the order of std::map keys.
ByteOrder ==
  <<"NUL", "\n", " ", "!", ".", "/", "0", "1", "2", "3", "4", "5", "6", "7",
    "8", "9", ":", "<", ">", "@", "E", "F", "L", "0x60", "a", "b", "c", "d",
    "e", "f", "g", "h", "i", "j", "k", "l", "m", "n", "o", "p", "q", "r", "s",
    "t", "u", "v", "w", "x", "y", "z", "0x7f">>

ByteRank(c) == CHOOSE i \in 1 .. Len(ByteOrder) : ByteOrder[i] = c

RECURSIVE StringLess(_, _)
\* std::string's operator <.
StringLess(x, y) ==
  IF y = <<>> THEN FALSE
  ELSE IF x = <<>> THEN TRUE
  ELSE IF Head(x) # Head(y) THEN ByteRank(Head(x)) < ByteRank(Head(y))
  ELSE StringLess(Tail(x), Tail(y))

RECURSIVE InKeyOrder(_)
\* The keys of a std::map in the order its iterator visits them.
InKeyOrder(keys) ==
  IF keys = {} THEN <<>>
  ELSE LET k == CHOOSE x \in keys : \A y \in keys \ {x} : StringLess(x, y)
       IN  <<k>> \o InKeyOrder(keys \ {k})

\* std::map's operator [] followed by an assignment.
MapPut(m, k, v) == [x \in DOMAIN m \cup {k} |-> IF x = k THEN v ELSE m[x]]

(***************************************************************************)
(* files::image, files::archive and files::object.  Each is a record of    *)
(* the heap with the fields                                                *)
(*   kind         "image", "archive" or "object"                           *)
(*   file         image::name_                                             *)
(*   references_  image::references_                                       *)
(*   fd_          image::fd_                                               *)
(*   archive_     object::archive_: the place in the heap of the archive   *)
(*                the object is a member of, 0 for none                    *)
(*   elf_         whether an ELF session is attached                       *)
(*   alive        FALSE once deleted                                       *)
(*   held         kept for the properties, not by the code: the opens made *)
(*                through this archive or object that a close through it   *)
(*                has not yet matched                                      *)
(* The operations work on a record w, the world: the heap, the cache's     *)
(* fields, the descriptor table fds, the error in flight threw ("" for     *)
(* none) and the number of ::open and ::close calls made, os_opens and     *)
(* os_closes.  A throw skips the code that follows it: an operation on a   *)
(* world with an error in flight leaves the world as it is.                *)
(***************************************************************************)
\* image::image (path, is_object), image::image ().
NewImage(path) ==
  [kind |-> "image",
   file |-> [aname |-> <<>>, oname |-> path, offset |-> 0, size |-> 0],
   archive_ |-> 0, references_ |-> 0, fd_ |-> -1, elf_ |-> FALSE,
   alive |-> TRUE, held |-> 0]

\* archive::archive (path): image (path, false).
NewArchive(path, size) ==
  [kind |-> "archive",
   file |-> [aname |-> path, oname |-> <<>>, offset |-> 0, size |-> size],
   archive_ |-> 0, references_ |-> 0, fd_ |-> -1, elf_ |-> FALSE,
   alive |-> TRUE, held |-> 0]

\* object::object (archive_, name_): image (name_), archive_ (&archive_).
NewMember(a, f) ==
  [kind |-> "object", file |-> f,
   archive_ |-> a, references_ |-> 0, fd_ |-> -1, elf_ |-> FALSE,
   alive |-> TRUE, held |-> 0]

\* object::object (path): image (path), archive_ (0).
NewObject(path, size) ==
  [kind |-> "object",
   file |-> [aname |-> <<>>, oname |-> path, offset |-> 0, size |-> size],
   archive_ |-> 0, references_ |-> 0, fd_ |-> -1, elf_ |-> FALSE,
   alive |-> TRUE, held |-> 0]

\* image::open as it would be with the reference taken before the descriptor
\* is checked: a failed ::open leaves the reference behind.
image_open_CountsFailedOpen(w, i, writable, osok) ==
  IF w.threw # "" THEN w
  ELSE IF file_path(w.heap[i].file) = <<>>
  THEN [w EXCEPT !.threw = "No file name"]
  ELSE IF w.heap[i].fd_ < 0
  THEN IF osok
       THEN [w EXCEPT !.heap[i].fd_ = NewFd(w.fds),
                      !.heap[i].references_ = @ + 1,
                      !.fds = @ \cup {<<NewFd(w.fds), file_path(w.heap[i].file)>>},
                      !.os_opens = @ + 1]
       ELSE [w EXCEPT !.heap[i].fd_ = -1,
                      !.heap[i].references_ = @ + 1,
                      !.os_opens = @ + 1,
                      !.threw = "strerror"]
  ELSE [w EXCEPT !.heap[i].references_ = @ + 1]

\* image::open (bool writable) on the image at i.  osok: whether ::open
\* succeeds when it is called.
image_open(w, i, writable, osok) ==
  IF w.threw # "" THEN w
  ELSE IF file_path(w.heap[i].file) = <<>>
  THEN [w EXCEPT !.threw = "No file name"]
  ELSE IF w.heap[i].fd_ < 0
  THEN IF osok
       THEN [w EXCEPT !.heap[i].fd_ = NewFd(w.fds),
                      !.heap[i].references_ = @ + 1,
                      !.fds = @ \cup {<<NewFd(w.fds), file_path(w.heap[i].file)>>},
                      !.os_opens = @ + 1]
       ELSE [w EXCEPT !.heap[i].fd_ = -1,
                      !.os_opens = @ + 1,
                      !.threw = "strerror"]
  ELSE [w EXCEPT !.heap[i].references_ = @ + 1]

\* image::close () on the image at i.
image_close(w, i) ==
  IF w.threw # "" THEN w
  ELSE IF w.heap[i].references_ > 0
  THEN IF w.heap[i].references_ - 1 = 0
       THEN [w EXCEPT !.heap[i].references_ = 0,
                      !.heap[i].fd_ = -1,
                      !.fds = OsClose(@, w.heap[i].fd_),
                      !.os_closes = @ + 1]
       ELSE [w EXCEPT !.heap[i].references_ = @ - 1]
  ELSE w

\* image::~image () and the release of the memory.
image_destroy(w, i) ==
  IF w.threw # "" THEN w
  ELSE IF w.heap[i].references_ # 0
  THEN [w EXCEPT !.heap[i].alive = FALSE, !.deleted = Append(@, i),
                 !.threw = "references when destructing image"]
  ELSE IF w.heap[i].fd_ >= 0
  THEN [w EXCEPT !.heap[i].alive = FALSE, !.deleted = Append(@, i),
                 !.fds = OsClose(@, w.heap[i].fd_),
                 !.os_closes = @ + 1]
  ELSE [w EXCEPT !.heap[i].alive = FALSE, !.deleted = Append(@, i)]

\* image::is_open ().
is_open(im) == im.fd_ >= 0

\* The image an object's open and close go to: the archive's when it is a
\* member of one, else its own.
ImageOf(h, i) == IF h[i].archive_ # 0 THEN h[i].archive_ ELSE i

\* An open through i has returned.
took(w, i) ==
  IF w.threw # "" THEN w ELSE [w EXCEPT !.heap[i].held = @ + 1]

\* A close through i has returned.
gave(w, i) ==
  IF w.threw # "" THEN w
  ELSE [w EXCEPT !.heap[i].held = IF @ > 0 THEN @ - 1 ELSE 0]

\* archive::open (): image::open on the archive.
archive_open(w, a, writable, osok) == took(image_open(w, a, writable, osok), a)

\* archive::close (): image::close on the archive.
archive_close(w, a) == gave(image_close(w, a), a)

\* object::open as it would be with every object opening its own image.
object_open_OwnImage(w, i, osok) == took(image_open(w, i, FALSE, osok), i)

\* object::open (): archive_->open () for a member, else image::open ().
object_open(w, i, osok) ==
  took(image_open(w, ImageOf(w.heap, i), FALSE, osok), i)

\* object::close (): archive_->close () for a member, else image::close ().
object_close(w, i) == gave(image_close(w, ImageOf(w.heap, i)), i)

\* rld::elf::begin (image): an object's bytes are an ELF file, an archive's
\* bytes an archive.
elf_begin(w, d, i) ==
  IF w.threw # "" THEN w
  ELSE IF w.heap[i].kind = "archive" \/ elf_begin_ok(d, w.heap[i].file)
  THEN [w EXCEPT !.heap[i].elf_ = TRUE]
  ELSE [w EXCEPT !.threw = "elf::begin"]

\* rld::elf::end (image).
elf_end(w, i) ==
  IF w.threw # "" THEN w ELSE [w EXCEPT !.heap[i].elf_ = FALSE]

\* delete of an object: object::~object () is end () and close (), and then
\* image::~image () on the object's own image.
object_delete(w, i) == image_destroy(object_close(elf_end(w, i), i), i)

\* delete of an archive: archive::~archive () is close (), and then
\* image::~image ().
archive_delete(w, a) == image_destroy(archive_close(w, a), a)

\* The end of a catch (...) block: the error caught is thrown again, unless
\* the block has thrown one itself.
rethrow(w, caught) == [w EXCEPT !.threw = IF @ # "" THEN @ ELSE caught]

(***************************************************************************)
(* files::cache.  d is the disk; ::open succeeds on the files that exist.  *)
(***************************************************************************)
RECURSIVE register_objects(_, _, _, _)
\* archive::add_object for each file load_objects found:
\* objs[n.full ()] = new object (*this, n).
register_objects(w, a, path, found) ==
  IF found = <<>> THEN w
  ELSE register_objects(
         [w EXCEPT !.heap = Append(@, NewMember(a,
                               [aname |-> path, oname |-> Head(found).oname,
                                offset |-> Head(found).offset,
                                size |-> Head(found).size])),
                   !.objects_ = MapPut(@,
                                  file_full([aname |-> path,
                                             oname |-> Head(found).oname,
                                             offset |-> Head(found).offset,
                                             size |-> Head(found).size]),
                                  Len(w.heap) + 1)],
         a, path, Tail(found))

\* archive::load_objects (objects_) has returned found: the objects it
\* registered before it ended, and the error it ended with.
loaded(w, a, path, found) ==
  [register_objects(w, a, path, found.objs) EXCEPT !.threw = found.threw]

\* ar->load_objects (objects_).
archive_load_objects(w, d, path, a, beyond) ==
  IF w.threw # "" THEN w ELSE loaded(w, a, path, load_objects(d[path], beyond))

\* archive::is_valid (), the seek_read of the identifier: ::read fails on a
\* directory, and the error leaves is_valid () before its close ().
archive_read_ident(w, path) ==
  IF w.threw # "" THEN w
  ELSE IF path \in Directories THEN [w EXCEPT !.threw = "strerror"]
  ELSE w

\* archive::is_valid (), once its open () has succeeded: the first 8 bytes
\* are the archive identifier.
archive_ident_ok(d, path) ==
  /\ check_file(d, path)
  /\ read_at(d[path], 0, rld_archive_ident_size) = rld_archive_ident

\* catch (...) { delete ar; throw; }
catch_delete_archive(w, a) ==
  IF w.threw = "" THEN w
  ELSE rethrow(archive_delete([w EXCEPT !.threw = ""], a), w.threw)

\* catch (...) { delete obj; throw; }
catch_delete_object(w, obj) ==
  IF w.threw = "" THEN w
  ELSE rethrow(object_delete([w EXCEPT !.threw = ""], obj), w.threw)

\* cache::collect_object_files (path), the branch of a valid archive; a is
\* the archive.
collect_archive(w, d, path, a, beyond) ==
  catch_delete_archive(
    archive_close(
      archive_load_objects(
        archive_open([w EXCEPT !.archives_ = MapPut(@, path, a)],
                     a, FALSE, check_file(d, path)),
        d, path, a, beyond),
      a),
    a)

\* objects_[path] = obj.
put_object(w, path, obj) ==
  IF w.threw # "" THEN w ELSE [w EXCEPT !.objects_ = MapPut(@, path, obj)]

\* cache::collect_object_files (path), the branch of a file that is no
\* archive, once the archive tried first is deleted: obj is the object
\* file::exists () is asked about.
collect_object(w, d, path, obj) ==
  IF w.threw # "" THEN w
  ELSE IF ~ check_file(d, path)
  THEN rethrow(object_delete(w, obj), "Not found or a regular file")
  ELSE catch_delete_object(
         put_object(
           object_close(
             elf_end(
               elf_begin(object_open(w, obj, check_file(d, path)), d, obj),
               obj),
             obj),
           path, obj),
         obj)

\* new object (path).
new_object(w, d, path) ==
  IF w.threw # "" THEN w
  ELSE [w EXCEPT !.heap = Append(@, NewObject(path, stat_size(d, path)))]

\* cache::collect_object_files (path) from the answer of ar->is_valid ().
collect_checked(w, d, path, a, beyond) ==
  IF w.threw # "" THEN w
  ELSE IF archive_ident_ok(d, path)
  THEN collect_archive(w, d, path, a, beyond)
  ELSE collect_object(new_object(archive_delete(w, a), d, path),
                      d, path, a + 1)

\* cache::collect_object_files (path): new archive (path), and is_valid ()
\* opens and closes it.
collect_object_files(w, d, path, beyond) ==
  IF w.threw # "" THEN w
  ELSE collect_checked(
         archive_close(
           archive_read_ident(
             archive_open(
               [w EXCEPT !.heap = Append(@, NewArchive(path, stat_size(d, path)))],
               Len(w.heap) + 1, FALSE, os_open_ok(d, path)),
             path),
           Len(w.heap) + 1),
         d, path, Len(w.heap) + 1, beyond)

RECURSIVE collect_all(_, _, _, _)
\* cache::collect_object_files (): every path of paths_, to the first error.
collect_all(w, d, paths, beyond) ==
  IF paths = <<>> \/ w.threw # "" THEN w
  ELSE collect_all(collect_object_files(w, d, Head(paths), beyond),
                   d, Tail(paths), beyond)

\* cache::archive_begin (path).
archive_begin(w, d, path) ==
  IF w.threw # "" THEN w
  ELSE IF path \in DOMAIN w.archives_ /\ ~ is_open(w.heap[w.archives_[path]])
  THEN elf_begin(
         archive_open(w, w.archives_[path], FALSE, check_file(d, path)),
         d, w.archives_[path])
  ELSE w

\* cache::archive_end (path).
archive_end(w, path) ==
  IF w.threw # "" THEN w
  ELSE IF path \in DOMAIN w.archives_ /\ is_open(w.heap[w.archives_[path]])
  THEN archive_close(elf_end(w, w.archives_[path]), w.archives_[path])
  ELSE w

RECURSIVE archives_begin_from(_, _, _)
archives_begin_from(w, d, keys) ==
  IF keys = <<>> \/ w.threw # "" THEN w
  ELSE archives_begin_from(
         archive_begin(w, d, file_path(w.heap[w.archives_[Head(keys)]].file)),
         d, Tail(keys))

\* cache::archives_begin ().
archives_begin(w, d) == archives_begin_from(w, d, InKeyOrder(DOMAIN w.archives_))

RECURSIVE archives_end_from(_, _)
archives_end_from(w, keys) ==
  IF keys = <<>> \/ w.threw # "" THEN w
  ELSE archives_end_from(
         archive_end(w, file_path(w.heap[w.archives_[Head(keys)]].file)),
         Tail(keys))

\* cache::archives_end ().
archives_end(w) == archives_end_from(w, InKeyOrder(DOMAIN w.archives_))

\* opened = true / opened = false.
set_opened(w, value) ==
  IF w.threw # "" THEN w ELSE [w EXCEPT !.opened = value]

\* cache::open as it would be without the test of opened.
cache_open_Again(w, d, beyond) ==
  set_opened(archives_begin(collect_all(w, d, w.paths_, beyond), d), TRUE)

\* cache::open ().
cache_open(w, d, beyond) ==
  IF ~ w.opened
  THEN set_opened(archives_begin(collect_all(w, d, w.paths_, beyond), d), TRUE)
  ELSE w

RECURSIVE delete_objects(_, _)
\* cache::close (), the first loop: delete every object of objects_.
delete_objects(w, keys) ==
  IF keys = <<>> \/ w.threw # "" THEN w
  ELSE delete_objects(object_delete(w, w.objects_[Head(keys)]), Tail(keys))

RECURSIVE delete_archives(_, _)
\* cache::close (), the second loop: delete every archive of archives_.
delete_archives(w, keys) ==
  IF keys = <<>> \/ w.threw # "" THEN w
  ELSE delete_archives(archive_delete(w, w.archives_[Head(keys)]), Tail(keys))

\* cache::close () as it would be with the archives deleted first.
cache_close_ArchivesFirst(w) ==
  IF w.opened
  THEN set_opened(
         delete_objects(
           delete_archives(w, InKeyOrder(DOMAIN w.archives_)),
           InKeyOrder(DOMAIN w.objects_)),
         FALSE)
  ELSE w

\* cache::close ().
cache_close(w) ==
  IF w.opened
  THEN set_opened(
         delete_archives(
           delete_objects(w, InKeyOrder(DOMAIN w.objects_)),
           InKeyOrder(DOMAIN w.archives_)),
         FALSE)
  ELSE w

\* cache::input (path).
cache_input(w, d, path, beyond) ==
  IF w.opened
  THEN archive_begin(collect_object_files(w, d, path, beyond), d, path)
  ELSE w

\* cache::add (path).
cache_add(w, d, path, beyond) ==
  cache_input([w EXCEPT !.paths_ = Append(@, path)], d, path, beyond)

\* cache::get_objects (list) as it would be were a path that objects_ does
\* not have passed over.
RECURSIVE get_objects_from_SkipsMissing(_, _, _)
get_objects_from_SkipsMissing(w, k, list) ==
  IF k > Len(w.paths_) THEN [list |-> list, threw |-> ""]
  ELSE IF w.paths_[k] \notin DOMAIN w.objects_
  THEN get_objects_from_SkipsMissing(w, k + 1, list)
  ELSE get_objects_from_SkipsMissing(
         w, k + 1, Append(list, w.objects_[w.paths_[k]]))

\* cache::get_objects (list), the loop from the k-th path on: the object
\* objects_ has under the path is pushed onto the list.
RECURSIVE get_objects_from(_, _, _)
get_objects_from(w, k, list) ==
  IF k > Len(w.paths_) THEN [list |-> list, threw |-> ""]
  ELSE IF w.paths_[k] \notin DOMAIN w.objects_
  THEN [list |-> list, threw |-> "path not found in objects"]
  ELSE get_objects_from(w, k + 1, Append(list, w.objects_[w.paths_[k]]))

\* cache::get_objects (list): list.clear (), and the loop.
get_objects(w) == get_objects_from(w, 1, <<>>)

(***************************************************************************)
(* The files the model's disk holds.                                       *)
(***************************************************************************)
\* A member of an archive as GNU ar writes it: the name ended by '/', the
\* size, the data, and a newline after data of odd length.
GnuMember(name, data) ==
  Field(name \o <<"/">>, rld_archive_fname_size)
    \o Field(<<"0">>, rld_archive_mtime_size)
    \o Field(<<"0">>, rld_archive_uid_size)
    \o Field(<<"0">>, rld_archive_gid_size)
    \o Field(<<"6", "4", "4">>, rld_archive_mode_size)
    \o Field(Digits(Len(data), 10), rld_archive_size_size)
    \o HeaderMagic
    \o data
    \o (IF Len(data) % 2 = 1 THEN <<"\n">> ELSE <<>>)

RECURSIVE GnuMembers(_)
GnuMembers(members) ==
  IF members = <<>> THEN <<>>
  ELSE GnuMember(Head(members).oname, Head(members).data)
         \o GnuMembers(Tail(members))

\* An archive as GNU ar writes it, of members with short names.
GnuArchive(members) == rld_archive_ident \o GnuMembers(members)

MemberNames ==
  <<  <<"m", "1", ".", "o">>, <<"m", "2", ".", "o">>, <<"m", "3", ".", "o">>,
      <<"m", "4", ".", "o">>, <<"m", "5", ".", "o">>, <<"m", "6", ".", "o">>,
      <<"m", "7", ".", "o">>  >>

\* The n-th member: an ELF file, of odd length when n is even.
MemberFile(n) ==
  [oname |-> MemberNames[n],
   data |-> ElfIdent \o (IF n % 2 = 0 THEN <<"a">> ELSE <<>>)]

LibPath == <<"l", "i", "b", ".", "a">>
ObjPath == <<"x", ".", "o">>
GonePath == <<"g", "o", "n", "e">>
AppPath == <<"a", "p", "p">>

\* The disk with an archive of n members and one object file.
DiskWith(n) ==
  [p \in {LibPath, ObjPath} |->
     IF p = LibPath THEN GnuArchive([i \in 1 .. n |-> MemberFile(i)])
     ELSE ElfIdent \o <<"x">>]

\* The paths the cache is given.
InputPaths == {LibPath, ObjPath, GonePath}

\* What uninitialised memory may hold where a name runs into it.
Beyond == {<<>>, <<"?">>}

(***************************************************************************)
(* The state, and the calls made on it.                                    *)
(***************************************************************************)
\* The world a call starts in.
World ==
  [heap |-> heap, paths_ |-> paths_, archives_ |-> archives_,
   objects_ |-> objects_, opened |-> opened, fds |-> os_fds, threw |-> "",
   os_opens |-> 0, os_closes |-> 0, deleted |-> <<>>]

\* cache::cache (): nothing opened, nothing collected.
NewCache ==
  [heap |-> <<>>, paths_ |-> <<>>, archives_ |-> <<>>, objects_ |-> <<>>,
   opened |-> FALSE, fds |-> {}, threw |-> "", os_opens |-> 0, os_closes |-> 0,
   deleted |-> <<>>]

NoCall ==
  [call |-> "", target |-> 0, references_ |-> 0, fd_ |-> -1,
   os_opens |-> 0, os_closes |-> 0, threw |-> "", list |-> <<>>,
   deleted |-> <<>>]

ScOff == [phase |-> "off", os_opens |-> 0, os_closes |-> 0]

NoAr == [phase |-> "off"]
NoFold == [phase |-> "off"]
NoRap == [phase |-> "off"]
NoCp == [phase |-> "off"]

\* The state is the world w, no call made yet.
StartIn(w) ==
  /\ heap = w.heap
  /\ paths_ = w.paths_
  /\ archives_ = w.archives_
  /\ objects_ = w.objects_
  /\ opened = w.opened
  /\ os_fds = w.fds
  /\ last = NoCall

\* The call name on the image at t (0: on the cache) ends in the world w.
Call(name, t, w) ==
  /\ heap' = w.heap
  /\ paths_' = w.paths_
  /\ archives_' = w.archives_
  /\ objects_' = w.objects_
  /\ opened' = w.opened
  /\ os_fds' = w.fds
  /\ last' = [call |-> name, target |-> t,
              references_ |-> IF t = 0 THEN 0 ELSE heap[t].references_,
              fd_ |-> IF t = 0 THEN -1 ELSE heap[t].fd_,
              os_opens |-> w.os_opens, os_closes |-> w.os_closes,
              threw |-> w.threw, list |-> <<>>, deleted |-> w.deleted]
  /\ UNCHANGED <<ar, fold, rap, cp>>

\* No archive is being created, no section folded, no RAP image built.
FilesOnly == ar = NoAr /\ fold = NoFold /\ rap = NoRap /\ cp = NoCp

\* The images, the cache and the descriptors are left as they are.
FilesUnchanged ==
  UNCHANGED <<heap, paths_, archives_, objects_, opened, os_fds, last, sc, cp>>

(***************************************************************************)
(* SpecImage: images of their own under any calls of open and close.       *)
(***************************************************************************)
\* One image with no name, the application image that is written, an object
\* file that is read.
OwnImages == <<NewImage(<<>>), NewImage(AppPath), NewImage(ObjPath)>>

InitImage ==
  /\ StartIn([NewCache EXCEPT !.heap = OwnImages])
  /\ disk = DiskWith(1)
  /\ sc = ScOff
  /\ FilesOnly

\* image.open (writable).  ::open of a file that is not there fails unless
\* it is to create it, and it may fail of a file that is there;
\* O_CREAT | O_TRUNC leaves an empty file.
ImageOpen(i, writable, osok) ==
  /\ heap[i].references_ < MaxRefs
  /\ osok => (writable \/ check_file(disk, file_path(heap[i].file)))
  /\ Call("image::open", i, image_open(World, i, writable, osok))
  /\ disk' = IF osok /\ writable /\ heap[i].fd_ < 0
                  /\ file_path(heap[i].file) # <<>>
             THEN MapPut(disk, file_path(heap[i].file), <<>>)
             ELSE disk
  /\ UNCHANGED sc

\* image.close ().
ImageClose(i) ==
  /\ Call("image::close", i, image_close(World, i))
  /\ UNCHANGED <<disk, sc>>

NextImage ==
  \/ \E i \in 1 .. Len(heap), writable \in BOOLEAN, osok \in BOOLEAN :
       ImageOpen(i, writable, osok)
  \/ \E i \in 1 .. Len(heap) : ImageClose(i)

SpecImage == InitImage /\ [][NextImage]_vars

(***************************************************************************)
(* Spec: the cache, and the users of its objects.                          *)
(***************************************************************************)
Init ==
  /\ StartIn(NewCache)
  /\ disk = DiskWith(2)
  /\ sc = ScOff
  /\ FilesOnly

\* A call on the cache; none that would take the heap or a reference count
\* beyond the model's bounds.
CacheCall(name, w) ==
  /\ Len(w.heap) <= MaxHeap
  /\ \A i \in 1 .. Len(w.heap) :
       w.heap[i].references_ <= MaxRefs /\ w.heap[i].held <= MaxRefs
  /\ Call(name, 0, w)
  /\ UNCHANGED <<disk, sc>>

\* cache.add (path).
CacheAdd(path, beyond) ==
  /\ Len(paths_) < MaxPaths
  /\ CacheCall("cache::add", cache_add(World, disk, path, beyond))

\* cache.open ().
CacheOpen(beyond) == CacheCall("cache::open", cache_open(World, disk, beyond))

\* cache.close ().
CacheClose == CacheCall("cache::close", cache_close(World))

\* The archives of archives_ are all there: none has been deleted.
ArchivesAlive == \A p \in DOMAIN archives_ : heap[archives_[p]].alive

\* cache.archives_begin ().
CacheArchivesBegin ==
  /\ ArchivesAlive
  /\ CacheCall("cache::archives_begin", archives_begin(World, disk))

\* cache.archives_end ().
CacheArchivesEnd ==
  /\ ArchivesAlive
  /\ CacheCall("cache::archives_end", archives_end(World))

\* The objects a user of the cache can hold: those of objects_ that have not
\* been deleted, a member's archive neither.
UsableObjects ==
  { i \in 1 .. Len(heap) :
      /\ \E k \in DOMAIN objects_ : objects_[k] = i
      /\ heap[i].alive
      /\ heap[ImageOf(heap, i)].alive }

\* obj.open () by a user of the object.
ObjectOpen(i, osok) ==
  /\ i \in UsableObjects
  /\ heap[ImageOf(heap, i)].references_ < MaxRefs
  /\ heap[i].held < MaxRefs
  /\ osok => check_file(disk, file_path(heap[i].file))
  /\ Call("object::open", ImageOf(heap, i), object_open(World, i, osok))
  /\ UNCHANGED <<disk, sc>>

\* obj.close () by a user that has opened the object.
ObjectClose(i) ==
  /\ i \in UsableObjects
  /\ heap[i].held > 0
  /\ Call("object::close", ImageOf(heap, i), object_close(World, i))
  /\ UNCHANGED <<disk, sc>>

Next ==
  \/ \E path \in InputPaths, beyond \in Beyond : CacheAdd(path, beyond)
  \/ \E beyond \in Beyond : CacheOpen(beyond)
  \/ CacheClose
  \/ CacheArchivesBegin
  \/ CacheArchivesEnd
  \/ \E i \in 1 .. Len(heap), osok \in BOOLEAN : ObjectOpen(i, osok)
  \/ \E i \in 1 .. Len(heap) : ObjectClose(i)

Spec == Init /\ [][Next]_vars

(***************************************************************************)
(* An archive a user has loaded for itself:                                *)
(*   archive ar (path); ar.open (); ar.load_objects (objs); ar.close ();   *)
(* The archive is the first of the heap, its members follow, and objects_  *)
(* stands for objs.                                                        *)
(***************************************************************************)
LoadedArchive(n) ==
  archive_close(
    archive_load_objects(
      archive_open(
        [NewCache EXCEPT
           !.heap = <<NewArchive(LibPath, stat_size(DiskWith(n), LibPath))>>],
        1, FALSE, TRUE),
      DiskWith(n), LibPath, 1, <<>>),
    1)

\* The members of the archive at a.
MembersOf(h, a) == { i \in 1 .. Len(h) : h[i].archive_ = a }

RECURSIVE HeldBy(_, _)
\* The opens that the closes of the same users have not matched yet, of the
\* users in the set users.
HeldBy(h, users) ==
  IF users = {} THEN 0
  ELSE LET i == CHOOSE x \in users : TRUE
       IN  h[i].held + HeldBy(h, users \ {i})

(***************************************************************************)
(* SpecShare: the members of an archive that is closed are all opened, in  *)
(* any order, and then all closed, in any order.                           *)
(***************************************************************************)
InitShare ==
  \E n \in 1 .. MaxShare :
    /\ StartIn(LoadedArchive(n))
    /\ disk = DiskWith(n)
    /\ sc = [phase |-> "open", os_opens |-> 0, os_closes |-> 0]
    /\ FilesOnly

\* The phase once the members hold what they hold in h.
NextPhase(h) ==
  IF sc.phase = "open"
  THEN IF \A i \in MembersOf(h, 1) : h[i].held > 0 THEN "close" ELSE "open"
  ELSE IF \A i \in MembersOf(h, 1) : h[i].held = 0 THEN "done" ELSE "close"

\* The sharing scenario after a call that ends in the world w.
Shared(w) ==
  sc' = [phase |-> NextPhase(w.heap),
         os_opens |-> sc.os_opens + w.os_opens,
         os_closes |-> sc.os_closes + w.os_closes]

\* obj.open () on a member that is not open yet.
ShareOpen(i) ==
  /\ sc.phase = "open"
  /\ i \in MembersOf(heap, 1)
  /\ heap[i].held = 0
  /\ Call("object::open", 1, object_open(World, i, TRUE))
  /\ Shared(object_open(World, i, TRUE))
  /\ UNCHANGED disk

\* obj.close () on a member that is still open.
ShareClose(i) ==
  /\ sc.phase = "close"
  /\ i \in MembersOf(heap, 1)
  /\ heap[i].held > 0
  /\ Call("object::close", 1, object_close(World, i))
  /\ Shared(object_close(World, i))
  /\ UNCHANGED disk

NextShare ==
  \/ \E i \in 1 .. Len(heap) : ShareOpen(i)
  \/ \E i \in 1 .. Len(heap) : ShareClose(i)

SpecShare == InitShare /\ [][NextShare]_vars

(***************************************************************************)
(* SpecArchive: an archive and its members in the hands of their users.    *)
(* A user closes what it has opened, and deletes a member it has not open. *)
(***************************************************************************)
InitArchive ==
  /\ StartIn(LoadedArchive(2))
  /\ disk = DiskWith(2)
  /\ sc = ScOff
  /\ FilesOnly

\* ar.open () by a user of the archive itself.
ArchiveOpen(osok) ==
  /\ heap[1].references_ < MaxRefs
  /\ heap[1].held < MaxRefs
  /\ Call("archive::open", 1, archive_open(World, 1, FALSE, osok))
  /\ UNCHANGED <<disk, sc>>

\* ar.close () by a user of the archive that has opened it.
ArchiveClose ==
  /\ heap[1].held > 0
  /\ Call("archive::close", 1, archive_close(World, 1))
  /\ UNCHANGED <<disk, sc>>

\* delete obj, of a member its user has not open.
MemberDelete(i) ==
  /\ i \in UsableObjects
  /\ heap[i].archive_ # 0
  /\ heap[i].held = 0
  /\ Call("delete object", heap[i].archive_, object_delete(World, i))
  /\ UNCHANGED <<disk, sc>>

NextArchive ==
  \/ \E osok \in BOOLEAN : ArchiveOpen(osok)
  \/ ArchiveClose
  \/ \E i \in 1 .. Len(heap), osok \in BOOLEAN : ObjectOpen(i, osok)
  \/ \E i \in 1 .. Len(heap) : ObjectClose(i)
  \/ \E i \in 1 .. Len(heap) : MemberDelete(i)

SpecArchive == InitArchive /\ [][NextArchive]_vars

(***************************************************************************)
(* Properties of the images, SpecImage.                                    *)
(***************************************************************************)
\* The descriptors the OS has open are those of the images that are open.
DescriptorsOfOpenImages ==
  os_fds = { <<heap[i].fd_, file_path(heap[i].file)>> :
               i \in { j \in 1 .. Len(heap) : heap[j].fd_ >= 0 } }

\* C1: after every image::open and image::close on an image of its own, the
\* image has a descriptor exactly when its reference count is positive;
\* ::open is called exactly when the count leaves 0 and ::close exactly when
\* it returns to 0; an open that fails leaves the count at 0 and no
\* descriptor; a close of a closed image changes nothing.
C1_DescriptorIffReferenced ==
  /\ \A i \in 1 .. Len(heap) : (heap[i].fd_ >= 0) <=> (heap[i].references_ > 0)
  /\ DescriptorsOfOpenImages
  /\ last.call = "image::open" =>
       /\ last.os_closes = 0
       /\ last.os_opens = 1 =>
            last.references_ = 0 /\ last.threw \in {"", "strerror"}
       /\ last.os_opens = 0 =>
            last.references_ > 0 \/ last.threw = "No file name"
       /\ last.threw = "" =>
            heap[last.target].references_ = last.references_ + 1
       /\ last.threw # "" =>
            /\ heap[last.target].references_ = 0
            /\ heap[last.target].fd_ = -1
  /\ last.call = "image::close" =>
       /\ last.os_opens = 0
       /\ (last.os_closes = 1) <=> (last.references_ = 1)
       /\ last.references_ > 0 =>
            heap[last.target].references_ = last.references_ - 1
       /\ last.references_ = 0 =>
            /\ heap[last.target].references_ = 0
            /\ heap[last.target].fd_ = last.fd_

\* An image has been closed for the last time while another image is open
\* twice on one descriptor.
C1_Witness ==
  /\ last.call = "image::close"
  /\ last.references_ = 1
  /\ last.os_closes = 1
  /\ heap[last.target].fd_ = -1
  /\ \E i \in 1 .. Len(heap) :
       heap[i].references_ = 2 /\ Cardinality(os_fds) = 1

(***************************************************************************)
(* Properties of the shared archive, SpecShare and SpecArchive.            *)
(***************************************************************************)
\* C2: while the N members of a closed archive are opened and then closed,
\* the archive's count is the number of members that are open; ::open has
\* been called once as soon as one member is open and never again; ::close
\* is called once, by the close of the last member, which leaves the count
\* at 0 and no descriptor.
C2_SharedArchiveOpenedOnce ==
  sc.phase # "off" =>
    /\ heap[1].references_ = HeldBy(heap, MembersOf(heap, 1))
    /\ sc.os_opens = IF sc.phase = "open" /\ heap[1].references_ = 0
                     THEN 0 ELSE 1
    /\ sc.os_closes = IF sc.phase = "done" THEN 1 ELSE 0
    /\ sc.phase = "close" =>
         /\ heap[1].references_ > 0
         /\ os_fds = {<<heap[1].fd_, LibPath>>}
    /\ sc.phase = "done" =>
         /\ heap[1].references_ = 0
         /\ heap[1].fd_ = -1
         /\ os_fds = {}
    /\ last.call = "object::open" /\ sc.phase = "close" =>
         heap[1].references_ = Cardinality(MembersOf(heap, 1))

\* The members of an archive of three or more have all been opened and all
\* been closed again.
C2_Witness ==
  /\ sc.phase = "done"
  /\ Cardinality(MembersOf(heap, 1)) >= 3
  /\ sc.os_opens = 1
  /\ sc.os_closes = 1
  /\ last.call = "object::close"

\* C3: an archive's reference count is the number of opens, through the
\* archive and through its members, that the same user has not closed yet,
\* and the archive has its descriptor while there is one.
C3_CountIsOpensNotClosed ==
  \A a \in 1 .. Len(heap) :
    heap[a].kind = "archive" /\ heap[a].alive =>
      /\ heap[a].references_ = HeldBy(heap, {a} \cup MembersOf(heap, a))
      /\ HeldBy(heap, {a} \cup MembersOf(heap, a)) > 0 =>
           heap[a].references_ > 0 /\ heap[a].fd_ >= 0

(***************************************************************************)
(* SpecAr: an archive is created from a list of objects, and the file      *)
(* written is loaded.  An object is [oname, data]: the name it was given   *)
(* and the bytes of its file.  With no system call failing, what create    *)
(* leaves behind is the file, and what load_objects leaves behind are the  *)
(* objects it registers.                                                   *)
(***************************************************************************)
\* The names the objects are given: short, with a directory, and two longer
\* than the header's name field.
LongX == [i \in 1 .. (rld_archive_fname_size + 1) |-> "x"]
LongY == [i \in 1 .. (rld_archive_fname_size + 2) |-> "y"]
ObjectNames == {<<"a", ".", "o">>, <<"d", "/", "b">>, LongX, LongY}

\* The contents of the objects: empty, of odd and of even length.
ObjectData == {<<>>, <<"p">>, <<"p", "q">>}

\* The lists of up to MaxMembers objects.
ObjectLists ==
  UNION { [1 .. n -> [oname : ObjectNames, data : ObjectData]] :
            n \in 0 .. MaxMembers }

ArPath == <<"n", "e", "w", ".", "a">>

InitAr ==
  /\ StartIn(NewCache)
  /\ ar = [phase |-> "new", objects |-> <<>>, found |-> <<>>, threw |-> ""]
  /\ disk = <<>>
  /\ sc = ScOff
  /\ fold = NoFold
  /\ rap = NoRap
  /\ cp = NoCp

\* archive (ArPath).create (objects).
ArCreate(objects) ==
  /\ ar.phase = "new"
  /\ disk' = MapPut(disk, ArPath, create(objects))
  /\ ar' = [ar EXCEPT !.phase = "created", !.objects = objects]
  /\ FilesUnchanged
  /\ UNCHANGED <<fold, rap>>

\* What load_objects has found becomes the state.
Loaded(r) == ar' = [ar EXCEPT !.phase = "loaded", !.found = r.objs,
                              !.threw = r.threw]

\* archive (ArPath).load_objects (objs).
ArLoad(beyond) ==
  /\ ar.phase = "created"
  /\ Loaded(load_objects(disk[ArPath], beyond))
  /\ FilesUnchanged
  /\ UNCHANGED <<disk, fold, rap>>

NextAr ==
  \/ \E objects \in ObjectLists : ArCreate(objects)
  \/ \E beyond \in Beyond : ArLoad(beyond)

SpecAr == InitAr /\ [][NextAr]_vars

\* C4: what load_objects registers from the file create has written is one
\* member per object of the list, in the list's order, each with the
\* object's basename, its length and its bytes.
C4_CreateThenLoadRoundTrip ==
  ar.phase = "loaded" =>
    /\ ar.threw = ""
    /\ Len(ar.found) = Len(ar.objects)
    /\ \A k \in 1 .. Len(ar.objects) :
         k <= Len(ar.found) =>
           /\ ar.found[k].oname = basename(ar.objects[k].oname)
           /\ ar.found[k].size = Len(ar.objects[k].data)
           /\ read_at(disk[ArPath], ar.found[k].offset, ar.found[k].size)
                = ar.objects[k].data

\* Where the header of the k-th member starts in the file create writes.
RECURSIVE MemberHeaderAt(_, _)
MemberHeaderAt(objects, k) ==
  IF k = 1
  THEN rld_archive_ident_size
         + (IF extended_names_of(objects) # <<>>
            THEN rld_archive_fhdr_size + Len(extended_names_of(objects))
            ELSE 0)
  ELSE MemberHeaderAt(objects, k - 1)
         + rld_archive_fhdr_size + Len(objects[k - 1].data)

\* C5: in the file create writes, the header of every member whose basename
\* is longer than 16 bytes names it "/N", N the offset in the extended names
\* at which the basename and its newline start.
C5_LongNameOffsets ==
  ar.phase = "created" =>
    \A k \in 1 .. Len(ar.objects) :
      Len(basename(ar.objects[k].oname)) > rld_archive_fname_size =>
        read_at(disk[ArPath], MemberHeaderAt(ar.objects, k),
                rld_archive_fname_size)
          = Field(<<"/">> \o Digits(find_string(extended_names_of(ar.objects),
                                                basename(ar.objects[k].oname)
                                                  \o <<"\n">>), 10),
                  rld_archive_fname_size)

(***************************************************************************)
(* rap::section, a record [size, offset, align] of 32-bit values.  The     *)
(* model's values stay far below 2^31.                                     *)
(***************************************************************************)
\* section::section ().
NewSection == [size |-> 0, offset |-> 0, align |-> 0]

\* x & ((1 << bits) - 1), for 0 <= x < 2^31.
LowBits(x, bits) == IF bits >= 31 THEN x ELSE x % (2 ^ bits)

\* With align 0 the mask is (1 << (align - 1)) - 1 of the 32-bit value
\* 0xffffffff: a shift by more than the width, which is undefined.  A machine
\* that takes the low five bits of the count shifts by 31 and leaves a mask
\* of 31 bits; one that shifts everything out leaves a mask of 32 bits.
UndefinedMaskBits == {31, 32}

\* operator += as it would be with a mask of as many bits as the alignment.
mask_bits_OfAlign(align, undefined) == IF align = 0 THEN undefined ELSE align

\* The number of low bits the mask of operator += has.
mask_bits(align, undefined) == IF align = 0 THEN undefined ELSE align - 1

\* operator +=, the rounding:
\* if (offset & mask) { offset &= ~mask; offset += (1 << align); }
round_offset(offset, align, undefined) ==
  IF LowBits(offset, mask_bits(align, undefined)) # 0
  THEN (offset - LowBits(offset, mask_bits(align, undefined))) + 2 ^ align
  ELSE offset

\* operator +=, its first statement: if (align == 0) align = sec.align; the
\* group as it is when the tests that follow are made.
section_align(g, sec) == IF g.align = 0 THEN [g EXCEPT !.align = sec.align] ELSE g

\* operator += as it would be with the size added before the alignment is
\* tested.
section_add_SizeFirst(g, sec, undefined) ==
  IF sec.size # 0
  THEN IF g.align # 0 /\ g.align # sec.align
       THEN [sec |-> [g EXCEPT !.size = @ + sec.size],
             threw |-> "Alignments do not match"]
       ELSE IF g.size + sec.size # 0 /\ section_align(g, sec).align = 0
       THEN [sec |-> [section_align(g, sec) EXCEPT !.size = @ + sec.size],
             threw |-> "Invalid alignment"]
       ELSE [sec |-> [size |-> g.size + sec.size,
                      offset |-> round_offset(sec.offset + sec.size,
                                              section_align(g, sec).align,
                                              undefined),
                      align |-> section_align(g, sec).align],
             threw |-> ""]
  ELSE [sec |-> g, threw |-> ""]

\* section::operator += (sec) on the section g: the section it leaves and the
\* error it throws.  undefined: the mask bits an undefined shift leaves.
section_add(g, sec, undefined) ==
  IF sec.size # 0
  THEN IF g.align # 0 /\ g.align # sec.align
       THEN [sec |-> g, threw |-> "Alignments do not match"]
       ELSE IF section_align(g, sec).size # 0 /\ section_align(g, sec).align = 0
       THEN [sec |-> section_align(g, sec), threw |-> "Invalid alignment"]
       ELSE [sec |-> [size |-> g.size + sec.size,
                      offset |-> round_offset(sec.offset + sec.size,
                                              section_align(g, sec).align,
                                              undefined),
                      align |-> section_align(g, sec).align],
             threw |-> ""]
  ELSE [sec |-> g, threw |-> ""]

(***************************************************************************)
(* SpecFold: sections are folded into a group, one after the other.        *)
(***************************************************************************)
\* The sections folded: of every size, offset and alignment up to the bounds.
FoldSections ==
  [size : 0 .. MaxSecSize, offset : 0 .. MaxSecOffset, align : 0 .. MaxAlign]

InitFold ==
  /\ StartIn(NewCache)
  /\ fold = [phase |-> "new", g |-> NewSection, before |-> NewSection,
             sec |-> NewSection, threw |-> ""]
  /\ disk = <<>>
  /\ sc = ScOff
  /\ ar = NoAr
  /\ rap = NoRap
  /\ cp = NoCp

\* The fold of sec into the group has ended as r tells.
Folded(sec, r) ==
  fold' = [phase |-> "folded", g |-> r.sec, before |-> fold.g, sec |-> sec,
           threw |-> r.threw]

\* g += sec.
Fold(sec, undefined) ==
  /\ fold.g.size + sec.size <= MaxGroupSize
  /\ Folded(sec, section_add(fold.g, sec, undefined))
  /\ FilesUnchanged
  /\ UNCHANGED <<disk, ar, rap>>

NextFold ==
  \E sec \in FoldSections, undefined \in UndefinedMaskBits : Fold(sec, undefined)

SpecFold == InitFold /\ [][NextFold]_vars

\* The offset the rule gives: mask = (1 << (align - 1)) - 1, and an offset
\* with a bit of the mask set becomes (offset & ~mask) + (1 << align).
RuleOffset(offset, align) ==
  IF offset % (2 ^ (align - 1)) # 0
  THEN (offset - (offset % (2 ^ (align - 1)))) + 2 ^ align
  ELSE offset

\* C6 as stated: a fold of a section with a size into a group whose
\* alignment is 0 or the section's succeeds, with the sizes added, the
\* section's alignment and the offset of the rule; into a group of another
\* alignment it fails; a fold of a section of size 0 changes nothing.
C6_FoldAsStated ==
  fold.phase = "folded" =>
    /\ fold.sec.size = 0 => fold.threw = "" /\ fold.g = fold.before
    /\ fold.sec.size # 0 /\ fold.before.align # 0
         /\ fold.before.align # fold.sec.align =>
         fold.threw = "Alignments do not match"
    /\ fold.sec.size # 0 /\ fold.before.align \in {0, fold.sec.align} =>
         /\ fold.threw = ""
         /\ fold.g.size = fold.before.size + fold.sec.size
         /\ fold.g.align = fold.sec.align
         /\ fold.sec.align > 0 =>
              fold.g.offset = RuleOffset(fold.sec.offset + fold.sec.size,
                                         fold.sec.align)

\* C6, amended: as stated, but a group that has a size and no alignment
\* takes no section without an alignment: that fold fails with "Invalid
\* alignment" and leaves the group as it is.  Into an empty group such a
\* section folds with its size and alignment 0; the rule gives no offset for
\* it, its shift being undefined.
C6_FoldRule ==
  fold.phase = "folded" =>
    /\ fold.sec.size = 0 => fold.threw = "" /\ fold.g = fold.before
    /\ fold.sec.size # 0 /\ fold.before.align # 0
         /\ fold.before.align # fold.sec.align =>
         fold.threw = "Alignments do not match" /\ fold.g = fold.before
    /\ fold.sec.size # 0 /\ fold.before.align = 0 /\ fold.sec.align = 0
         /\ fold.before.size # 0 =>
         fold.threw = "Invalid alignment" /\ fold.g = fold.before
    /\ fold.sec.size # 0 /\ fold.before.align \in {0, fold.sec.align}
         /\ ~ (fold.before.size # 0 /\ fold.sec.align = 0) =>
         /\ fold.threw = ""
         /\ fold.g.size = fold.before.size + fold.sec.size
         /\ fold.g.align = fold.sec.align
         /\ fold.sec.align > 0 =>
              fold.g.offset = RuleOffset(fold.sec.offset + fold.sec.size,
                                         fold.sec.align)

\* A section is folded into a group that has a size already, of the same
\* alignment, and its offset is rounded.
C6_Witness ==
  /\ fold.phase = "folded"
  /\ fold.threw = ""
  /\ fold.before.size # 0
  /\ fold.sec.size # 0
  /\ fold.before.align = fold.sec.align
  /\ fold.g.offset # fold.sec.offset + fold.sec.size

(***************************************************************************)
(* The RAP image.  An object file is given by what the ELF reader tells    *)
(* of it: whether it is valid, the sections of each kind as records       *)
(* [index, size, alignment, offset], the size of its relocation records    *)
(* and its external symbols as records [name, type, binding, index,       *)
(* value, info].                                                           *)
(***************************************************************************)
\* enum sections.
rap_text == 0
rap_const == 1
rap_ctor == 2
rap_dtor == 3
rap_data == 4
rap_bss == 5
rap_secs == 6

\* external::rap_size, sizeof (uint32_t) * 3.
rap_size == 12

\* The sections of the object file that make the group s of a rap::object.
sections_of(obj, s) ==
  CASE s = rap_text -> obj.text
    [] s = rap_const -> obj.const_
    [] s = rap_ctor -> obj.ctor
    [] s = rap_dtor -> obj.dtor
    [] s = rap_data -> obj.data
    [] s = rap_bss -> obj.bss

\* files::sum_sizes (secs).
RECURSIVE sum_sizes(_)
sum_sizes(secs) ==
  IF secs = <<>> THEN 0 ELSE Head(secs).size + sum_sizes(Tail(secs))

\* files::find (secs, index) finds a section.
files_find(secs, index) == \E k \in 1 .. Len(secs) : secs[k].index = index

\* rap::object::object (obj): the size of a group is the sum of its
\* sections' sizes and its alignment that of the first section.
rap_object(obj) ==
  [obj |-> obj,
   secs |-> [s \in 0 .. rap_secs - 1 |->
               [size |-> sum_sizes(sections_of(obj, s)),
                offset |-> 0,
                align |-> IF sections_of(obj, s) # <<>>
                          THEN sections_of(obj, s)[1].alignment ELSE 0]],
   relocs_size |-> obj.relocs_size]

\* rap::object::find (index) finds a group: the first whose sections hold the
\* index.
object_finds(obj, index) ==
  \E s \in 0 .. rap_secs - 1 : files_find(sections_of(obj, s), index)

\* rap::object::find (index), when it finds a group.
object_find(obj, index) ==
  CHOOSE s \in 0 .. rap_secs - 1 :
    /\ files_find(sections_of(obj, s), index)
    /\ \A t \in 0 .. s - 1 : ~ files_find(sections_of(obj, t), index)

\* image::image ().  stream: the values put into the compressor, in order.
\* files: of the files::object of every object of objs, its reference count
\* and whether an ELF session is attached to it.
NewRap ==
  [objs |-> <<>>, secs |-> [s \in 0 .. rap_secs - 1 |-> NewSection],
   externs |-> <<>>, symtab_size |-> 0, strtab |-> <<>>, relocs_size |-> 0,
   stream |-> <<>>, files |-> <<>>, threw |-> ""]

\* image::layout, the first loop: a rap::object for every valid object.
RECURSIVE layout_objects(_, _)
layout_objects(r, app_objects) ==
  IF app_objects = <<>> THEN r
  ELSE IF ~ Head(app_objects).valid
  THEN [r EXCEPT !.threw = "Not valid"]
  ELSE layout_objects(
         [r EXCEPT !.objs = Append(@, rap_object(Head(app_objects))),
                   !.files = Append(@, [references_ |-> 0, elf_ |-> FALSE])],
         Tail(app_objects))

\* image::layout, the second loop: the image's sections are reset.
layout_reset(r) ==
  IF r.threw # "" THEN r
  ELSE [r EXCEPT !.secs = [s \in 0 .. rap_secs - 1 |-> NewSection]]

\* The image's section s after secs[s] += ..., as operator += ended.
layout_added(r, s, added) ==
  [r EXCEPT !.secs[s] = added.sec, !.threw = added.threw]

\* secs[s] += obj.secs[s].
layout_add(r, obj, s, undefined) ==
  IF r.threw # "" THEN r
  ELSE layout_added(r, s, section_add(r.secs[s], obj.secs[s], undefined))

\* The six folds of one object, text first.
layout_sections(r, obj, undefined) ==
  layout_add(layout_add(layout_add(layout_add(layout_add(layout_add(
    r, obj, rap_text, undefined), obj, rap_const, undefined),
    obj, rap_ctor, undefined), obj, rap_dtor, undefined),
    obj, rap_data, undefined), obj, rap_bss, undefined)

\* symtab_size = 0; strtab.clear (); once for every object.
layout_clear(r) ==
  IF r.threw # "" THEN r ELSE [r EXCEPT !.symtab_size = 0, !.strtab = <<>>]

\* The filter of image::layout as it would be for global symbols only.
layout_accepts_GlobalOnly(sym) ==
  /\ sym.type \in {"STT_OBJECT", "STT_FUNC"}
  /\ sym.binding = "STB_GLOBAL"

\* The filter of image::layout.
layout_accepts(sym) ==
  /\ sym.type \in {"STT_OBJECT", "STT_FUNC"}
  /\ sym.binding \in {"STB_GLOBAL", "STB_WEAK"}

\* The external made of an accepted symbol, and the tables after it.
layout_external(r, obj, sym) ==
  IF ~ object_finds(obj.obj, sym.index)
  THEN [r EXCEPT !.threw = "Section index not found"]
  ELSE [r EXCEPT
          !.externs = Append(@, [name |-> Len(r.strtab) + 2,
                                 sec |-> object_find(obj.obj, sym.index),
                                 value |-> sym.value,
                                 data |-> sym.info]),
          !.symtab_size = @ + rap_size,
          !.strtab = @ \o sym.name \o <<"NUL">>]

\* The loop over the external symbols of one object, from the k-th on.
RECURSIVE layout_externals(_, _, _)
layout_externals(r, obj, k) ==
  IF r.threw # "" \/ k > Len(obj.obj.esyms) THEN r
  ELSE IF layout_accepts(obj.obj.esyms[k])
  THEN layout_externals(layout_external(r, obj, obj.obj.esyms[k]), obj, k + 1)
  ELSE layout_externals(r, obj, k + 1)

\* relocs_size += obj.relocs_size.
layout_relocs(r, obj) ==
  IF r.threw # "" THEN r ELSE [r EXCEPT !.relocs_size = @ + obj.relocs_size]

\* The body of the loop over the image's objects.
layout_object(r, obj, undefined) ==
  layout_relocs(
    layout_externals(layout_clear(layout_sections(r, obj, undefined)), obj, 1),
    obj)

\* The loop over the image's objects, from the k-th on.
RECURSIVE layout_loop(_, _, _)
layout_loop(r, k, undefined) ==
  IF r.threw # "" \/ k > Len(r.objs) THEN r
  ELSE layout_loop(layout_object(r, r.objs[k], undefined), k + 1, undefined)

\* image::layout (app_objects).
layout(r, app_objects, undefined) ==
  layout_loop(layout_reset(layout_objects(r, app_objects)), 1, undefined)

\* comp << (uint32_t) value.
put_u32(r, value) ==
  IF r.threw # "" THEN r
  ELSE [r EXCEPT !.stream = Append(@, [t |-> "u32", v |-> value])]

\* comp << (uint32_t) strtab.size ().
put_strtab_size(r) == put_u32(r, Len(r.strtab))

\* strtab += name; strtab += '\0', as it would be without the terminator.
add_name_Unterminated(r, name) ==
  IF r.threw # "" THEN r ELSE [r EXCEPT !.strtab = @ \o name]

\* strtab += name; strtab += '\0'.
add_name(r, name) ==
  IF r.threw # "" THEN r ELSE [r EXCEPT !.strtab = @ \o name \o <<"NUL">>]

\* What elf::object_machine_type, object_datatype and object_class tell of
\* the objects loaded: here ARM, big endian, 32 bit.
ElfKind == [machine |-> 40, datatype |-> 2, class |-> 1]

\* image::write, the header: the ELF kind, the offset of init, the offset of
\* fini, the size of the symbols, the size of the strings and 0.
rap_write_header(r, init, fini) ==
  put_u32(
    put_strtab_size(
      put_u32(
        add_name(
          put_strtab_size(
            add_name(
              put_strtab_size(
                put_u32(put_u32(put_u32(r, ElfKind.machine), ElfKind.datatype),
                        ElfKind.class)),
              init)),
          fini),
        r.symtab_size)),
    0)

\* comp << secs[s].size << secs[s].align << secs[s].offset, from s on.
RECURSIVE write_secs(_, _)
write_secs(r, s) ==
  IF s >= rap_secs THEN r
  ELSE write_secs(put_u32(put_u32(put_u32(r, r.secs[s].size), r.secs[s].align),
                          r.secs[s].offset),
                  s + 1)

\* What may fail in image::write (comp, obj, secs): nothing, ::open in
\* obj.open (), rld::elf::begin or rld::elf::get_header in obj.begin (), or
\* comp.write.  The first call of the kind fails.
WriteFailures == {"", "open", "begin", "get_header", "write"}

\* obj.open () has succeeded.
write_open(r, o) == [r EXCEPT !.files[o].references_ = @ + 1]

\* obj.begin (): rld::elf::begin attaches the session, rld::elf::get_header
\* reads the header.
write_begin(r, o, failing) ==
  IF r.threw # "" THEN r
  ELSE IF failing = "begin" THEN [r EXCEPT !.threw = "elf::begin"]
  ELSE IF failing = "get_header"
  THEN [r EXCEPT !.files[o].elf_ = TRUE, !.threw = "elf::get_header"]
  ELSE [r EXCEPT !.files[o].elf_ = TRUE]

\* comp.write (obj, sec.offset, sec.size) for the sections from the k-th on.
RECURSIVE write_sections(_, _, _, _, _)
write_sections(r, o, secs, k, failing) ==
  IF r.threw # "" \/ k > Len(secs) THEN r
  ELSE IF failing = "write" THEN [r EXCEPT !.threw = "compressor write"]
  ELSE write_sections(
         [r EXCEPT !.stream = Append(@, [t |-> "sec", obj |-> o,
                                         offset |-> secs[k].offset,
                                         size |-> secs[k].size])],
         o, secs, k + 1, failing)

\* obj.end (), the last statement of the try block.
write_end(r, o) ==
  IF r.threw # "" THEN r ELSE [r EXCEPT !.files[o].elf_ = FALSE]

\* obj.close (), in the catch block and after the try block.
write_close(r, o) ==
  [r EXCEPT !.files[o].references_ = IF @ > 0 THEN @ - 1 ELSE 0]

\* image::write (comp, obj, secs) for the o-th object: the object is opened,
\* which is outside the try block, then begun, its sections are written,
\* it is ended, and it is closed whether an error is in flight or not.
write_object(r, o, secs, failing) ==
  IF r.threw # "" THEN r
  ELSE IF failing = "open" THEN [r EXCEPT !.threw = "strerror"]
  ELSE write_close(
         write_end(
           write_sections(write_begin(write_open(r, o), o, failing),
                          o, secs, 1, failing),
           o),
         o)

\* std::for_each (objs.begin (), objs.end (), section_writer (..., sec)),
\* from the o-th object on.
RECURSIVE section_writer(_, _, _, _)
section_writer(r, sec, o, failing) ==
  IF o > Len(r.objs) THEN r
  ELSE section_writer(
         write_object(r, o, sections_of(r.objs[o].obj, sec), failing),
         sec, o + 1, failing)

\* image::write, the bodies, as they would be with the data written first.
write_bodies_DataFirst(r, failing) ==
  section_writer(section_writer(section_writer(section_writer(section_writer(
    r, rap_data, 1, failing), rap_text, 1, failing), rap_const, 1, failing),
    rap_ctor, 1, failing), rap_dtor, 1, failing)

\* image::write, the bodies: text, const, ctor, dtor and data of every object.
write_bodies(r, failing) ==
  section_writer(section_writer(section_writer(section_writer(section_writer(
    r, rap_text, 1, failing), rap_const, 1, failing), rap_ctor, 1, failing),
    rap_dtor, 1, failing), rap_data, 1, failing)

\* comp << strtab.
put_strtab(r) ==
  IF r.threw # "" THEN r
  ELSE [r EXCEPT !.stream = Append(@, [t |-> "str", s |-> r.strtab])]

\* comp << (uint32_t) ((ext.sec << 16) | ext.data) << ext.name << ext.value,
\* for the externals from the k-th on.
RECURSIVE write_externs(_, _)
write_externs(r, k) ==
  IF k > Len(r.externs) THEN r
  ELSE write_externs(
         put_u32(put_u32(put_u32(r, r.externs[k].sec * 65536 + r.externs[k].data),
                         r.externs[k].name),
                 r.externs[k].value),
         k + 1)

\* image::write (comp, init, fini).
write(r, init, fini, failing) ==
  write_externs(
    put_strtab(
      write_bodies(write_secs(rap_write_header(r, init, fini), 0), failing)),
    1)

(***************************************************************************)
(* SpecRap: an image is laid out over a list of objects and written.       *)
(***************************************************************************)
TextSection == [index |-> 1, size |-> 2, alignment |-> 2, offset |-> 52]
DataSection == [index |-> 2, size |-> 1, alignment |-> 1, offset |-> 54]
BssSection == [index |-> 3, size |-> 4, alignment |-> 1, offset |-> 55]
RawSection == [index |-> 1, size |-> 1, alignment |-> 0, offset |-> 52]
MoreSection == [index |-> 4, size |-> 3, alignment |-> 0, offset |-> 53]

\* The symbols of the objects: a global function and a weak object, which
\* are external to the image, a local function and a global symbol of no
\* type.  info is (binding << 4) + type.
Symbols ==
  {[name |-> <<"f">>, type |-> "STT_FUNC", binding |-> "STB_GLOBAL",
    index |-> 1, value |-> 0, info |-> 18],
   [name |-> <<"g", "d">>, type |-> "STT_OBJECT", binding |-> "STB_WEAK",
    index |-> 2, value |-> 1, info |-> 33],
   [name |-> <<"l">>, type |-> "STT_FUNC", binding |-> "STB_LOCAL",
    index |-> 1, value |-> 0, info |-> 2],
   [name |-> <<"n">>, type |-> "STT_NOTYPE", binding |-> "STB_GLOBAL",
    index |-> 1, value |-> 0, info |-> 16]}

\* The lists of k symbols.
SymbolLists(k) == [1 .. k -> Symbols]

\* An object of text, data and bss, and one of text without an alignment
\* that has no section 2.
ObjectWith(esyms) ==
  [valid |-> TRUE, text |-> <<TextSection>>, const_ |-> <<>>, ctor |-> <<>>,
   dtor |-> <<>>, data |-> <<DataSection>>, bss |-> <<BssSection>>,
   relocs_size |-> 8, esyms |-> esyms]
RawObjectWith(esyms) ==
  [valid |-> TRUE, text |-> <<RawSection, MoreSection>>, const_ |-> <<>>,
   ctor |-> <<>>, dtor |-> <<>>, data |-> <<>>, bss |-> <<>>,
   relocs_size |-> 0, esyms |-> esyms]
InvalidObject ==
  [valid |-> FALSE, text |-> <<>>, const_ |-> <<>>, ctor |-> <<>>,
   dtor |-> <<>>, data |-> <<>>, bss |-> <<>>, relocs_size |-> 0,
   esyms |-> <<>>]

\* An object whose two text sections differ in alignment.
MixedObject ==
  [valid |-> TRUE,
   text |-> <<TextSection,
              [index |-> 5, size |-> 1, alignment |-> 1, offset |-> 60]>>,
   const_ |-> <<>>, ctor |-> <<>>, dtor |-> <<>>, data |-> <<>>, bss |-> <<>>,
   relocs_size |-> 0, esyms |-> <<>>]

\* The objects of k external symbols.
RapObjects(k) ==
  { ObjectWith(e) : e \in SymbolLists(k) } \cup
  { RawObjectWith(e) : e \in SymbolLists(k) } \cup
  (IF k = 0 THEN {InvalidObject, MixedObject} ELSE {})

\* The lists of n objects that have up to m external symbols in all.
RECURSIVE RapObjectListsOf(_, _)
RapObjectListsOf(n, m) ==
  IF n = 0 THEN {<<>>}
  ELSE UNION { { <<o>> \o rest : o \in RapObjects(k),
                                 rest \in RapObjectListsOf(n - 1, m - k) } :
               k \in 0 .. m }

\* The lists of up to MaxRapObjs objects, of up to MaxSyms symbols in all.
RapObjectLists ==
  UNION { RapObjectListsOf(n, MaxSyms) : n \in 0 .. MaxRapObjs }

\* The names of the entry points.
EntryNames == {<<"i">>, <<"f", "i">>}

InitRap ==
  /\ StartIn(NewCache)
  /\ rap = [phase |-> "new", app_objects |-> <<>>, image |-> NewRap,
            init |-> <<>>, fini |-> <<>>]
  /\ disk = <<>>
  /\ sc = ScOff
  /\ ar = NoAr
  /\ fold = NoFold
  /\ cp = NoCp

\* layout has ended as r tells.
RapLaid(app_objects, r) ==
  rap' = [rap EXCEPT !.app_objects = app_objects, !.image = r,
                     !.phase = IF r.threw # "" THEN "failed" ELSE "laid"]

\* rap.layout (app_objects).
RapLayout(app_objects, undefined) ==
  /\ rap.phase = "new"
  /\ RapLaid(app_objects, layout(rap.image, app_objects, undefined))
  /\ FilesUnchanged
  /\ UNCHANGED <<disk, ar, fold>>

\* write has ended as r tells.
RapWritten(init, fini, r) ==
  rap' = [rap EXCEPT !.init = init, !.fini = fini, !.image = r,
                     !.phase = IF r.threw # "" THEN "failed" ELSE "written"]

\* rap.write (compressor, init, fini).
RapWrite(init, fini, failing) ==
  /\ rap.phase = "laid"
  /\ RapWritten(init, fini, write(rap.image, init, fini, failing))
  /\ FilesUnchanged
  /\ UNCHANGED <<disk, ar, fold>>

NextRap ==
  \/ \E app_objects \in RapObjectLists, undefined \in UndefinedMaskBits :
       RapLayout(app_objects, undefined)
  \/ \E init \in EntryNames, fini \in EntryNames : RapWrite(init, fini, "")
  \/ \E failing \in WriteFailures :
       RapWrite(<<"i">>, <<"f", "i">>, failing)

SpecRap == InitRap /\ [][NextRap]_vars

\* The name, ended by a zero byte, is in the blob at the offset.
NameAt(blob, off, name) ==
  /\ off + Len(name) + 1 <= Len(blob)
  /\ SubSeq(blob, off + 1, off + Len(name)) = name
  /\ blob[off + Len(name) + 1] = "NUL"

\* The values put into the compressor, and the string table among them.
Stream == rap.image.stream
EmittedStrtab == Stream[CHOOSE k \in 1 .. Len(Stream) : Stream[k].t = "str"].s

\* The external symbols of all the objects, in the order of the objects and,
\* within an object, of its list.
RECURSIVE AllSymbols(_)
AllSymbols(app_objects) ==
  IF app_objects = <<>> THEN <<>>
  ELSE Head(app_objects).esyms \o AllSymbols(Tail(app_objects))

\* A symbol of type STT_OBJECT or STT_FUNC and of binding STB_GLOBAL or
\* STB_WEAK.
IsExternal(sym) ==
  /\ sym.type = "STT_OBJECT" \/ sym.type = "STT_FUNC"
  /\ sym.binding = "STB_GLOBAL" \/ sym.binding = "STB_WEAK"

\* The symbols the externals are expected to be made of.
ExpectedExternals == SelectSeq(AllSymbols(rap.app_objects), IsExternal)

\* The external records at the end of the stream: what follows the string
\* table, three values a record.
EmittedRecords ==
  SubSeq(Stream,
         (CHOOSE k \in 1 .. Len(Stream) : Stream[k].t = "str") + 1,
         Len(Stream))

\* C7: what image::write puts first are eight 32-bit values: the machine
\* type, the data encoding, the ELF class, the offset of init, the offset of
\* fini, the size of the symbols, the size of the strings and 0; in the
\* string table emitted the init and fini names, each ended by a zero byte,
\* start at their offsets, and the table is as long as the header says.
C7_HeaderValues ==
  /\ rap.phase \in {"written", "failed"} /\ Stream # <<>> =>
       /\ Len(Stream) >= 8
       /\ \A k \in 1 .. 8 : Stream[k].t = "u32"
       /\ Stream[1].v = ElfKind.machine
       /\ Stream[2].v = ElfKind.datatype
       /\ Stream[3].v = ElfKind.class
       /\ Stream[6].v = rap.image.symtab_size
       /\ Stream[8].v = 0
  /\ rap.phase = "written" =>
       /\ NameAt(EmittedStrtab, Stream[4].v, rap.init)
       /\ NameAt(EmittedStrtab, Stream[5].v, rap.fini)
       /\ Stream[4].v # Stream[5].v
       /\ Stream[7].v = Len(EmittedStrtab)

\* An image of two objects with externals is written, init and fini being
\* different names.
C7_Witness ==
  /\ rap.phase = "written"
  /\ Len(rap.image.objs) = 2
  /\ rap.image.externs # <<>>
  /\ rap.image.strtab # rap.init \o <<"NUL">> \o rap.fini \o <<"NUL">>
  /\ rap.init # rap.fini

\* C8: after image::layout the externals are, in order, the symbols of the
\* objects (objects in the order given, the symbols of an object in the
\* order of external_symbols) that have type STT_OBJECT or STT_FUNC and
\* binding STB_GLOBAL or STB_WEAK: none of them is left out and no other
\* symbol is among them.
C8_ExternalsAreFilteredSymbols ==
  rap.phase \in {"laid", "written"} =>
    /\ Len(rap.image.externs) = Len(ExpectedExternals)
    /\ \A k \in 1 .. Len(rap.image.externs) :
         /\ rap.image.externs[k].value = ExpectedExternals[k].value
         /\ rap.image.externs[k].data = ExpectedExternals[k].info

\* Two objects are laid out, the first with a symbol that is left out before
\* one that is kept.
C8_Witness ==
  /\ rap.phase = "laid"
  /\ Len(rap.app_objects) = 2
  /\ Len(rap.app_objects[1].esyms) = 2
  /\ ~ IsExternal(rap.app_objects[1].esyms[1])
  /\ IsExternal(rap.app_objects[1].esyms[2])
  /\ Len(rap.image.externs) = 1

\* C9: in what layout and then write emit, the name offset of every external
\* record is the offset in the string table emitted of the name of its
\* symbol, ended by a zero byte.
C9_NameOffsetsFindNames ==
  rap.phase = "written" =>
    \A k \in 1 .. Len(rap.image.externs) :
      k <= Len(ExpectedExternals) =>
        NameAt(EmittedStrtab, rap.image.externs[k].name,
               ExpectedExternals[k].name)

\* C10: after image::layout the size of the symbols is 12 for every external
\* recorded and the string table holds the name of every one of them; the
\* size in the header written is the size of the records at the end of the
\* stream.
C10_SymtabSizeCountsExternals ==
  /\ rap.phase \in {"laid", "written"} =>
       /\ rap.image.symtab_size = 12 * Len(rap.image.externs)
       /\ \A k \in 1 .. Len(ExpectedExternals) :
            \E off \in 0 .. Len(rap.image.strtab) :
              NameAt(rap.image.strtab, off, ExpectedExternals[k].name)
  /\ rap.phase = "written" => Stream[6].v = 4 * Len(EmittedRecords)

\* The bytes the values of a stream are: 4 for a 32-bit value, its size for
\* a section and its length for a string.
RECURSIVE StreamBytes(_)
StreamBytes(stream) ==
  IF stream = <<>> THEN 0
  ELSE (CASE Head(stream).t = "u32" -> 4
          [] Head(stream).t = "sec" -> Head(stream).size
          [] Head(stream).t = "str" -> Len(Head(stream).s))
       + StreamBytes(Tail(stream))

\* The size of the group s that the header of the stream tells: the header's
\* eight values are followed by size, alignment and offset of every group.
HeaderGroupSize(s) == Stream[8 + 3 * s + 1].v

\* C11: the bytes layout and then write hand to the compressor are the sizes
\* the header tells of the text, const, ctor, dtor and data groups, 32 bytes
\* of header, 72 bytes of group records, the size of the strings and the
\* size of the symbols the header tells; bss adds none.
C11_StreamLength ==
  rap.phase = "written" =>
    StreamBytes(Stream)
      = HeaderGroupSize(rap_text) + HeaderGroupSize(rap_const)
          + HeaderGroupSize(rap_ctor) + HeaderGroupSize(rap_dtor)
          + HeaderGroupSize(rap_data)
          + 32 + 72 + Stream[7].v + Stream[6].v

\* The sections of the group s of the objects from the o-th on, as the body
\* is expected to hold them.
RECURSIVE GroupBody(_, _, _)
GroupBody(app_objects, s, o) ==
  IF o > Len(app_objects) THEN <<>>
  ELSE [k \in 1 .. Len(sections_of(app_objects[o], s)) |->
          [t |-> "sec", obj |-> o,
           offset |-> sections_of(app_objects[o], s)[k].offset,
           size |-> sections_of(app_objects[o], s)[k].size]]
       \o GroupBody(app_objects, s, o + 1)

\* The body expected: group after group, text first and data last.
ExpectedBody ==
  GroupBody(rap.app_objects, rap_text, 1)
    \o GroupBody(rap.app_objects, rap_const, 1)
    \o GroupBody(rap.app_objects, rap_ctor, 1)
    \o GroupBody(rap.app_objects, rap_dtor, 1)
    \o GroupBody(rap.app_objects, rap_data, 1)

\* Where the string table is in the stream.
StrtabAt == CHOOSE k \in 1 .. Len(Stream) : Stream[k].t = "str"

RECURSIVE NamesOf(_, _)
NamesOf(syms, k) ==
  IF k > Len(syms) THEN <<>>
  ELSE syms[k].name \o <<"NUL">> \o NamesOf(syms, k + 1)

\* C13: the string table layout and then write emit holds the init name,
\* the fini name and then the names of the externals in their order, each
\* ended by a zero byte; so the name offset of the first external is
\* len(init) + 1 + len(fini) + 1.
C13_StrtabOrder ==
  rap.phase = "written" =>
    /\ EmittedStrtab
         = rap.init \o <<"NUL">> \o rap.fini \o <<"NUL">>
             \o NamesOf(ExpectedExternals, 1)
    /\ rap.image.externs # <<>> =>
         rap.image.externs[1].name = Len(rap.init) + 1 + Len(rap.fini) + 1

(***************************************************************************)
(* SpecCollect: cache::collect_object_files (path) on the paths of a disk  *)
(* that holds archives, one of them with a member header of a wrong magic  *)
(* and one whose member names a name table that is not there, an ELF file  *)
(* and a file that is none, next to a directory and a device.              *)
(***************************************************************************)
BadPath == <<"b", "a", "d", ".", "a">>
LongPath == <<"l", "n", "g", ".", "a">>
TextPath == <<"t", ".", "c">>

CollectDisk ==
  [p \in {LibPath, ObjPath, BadPath, LongPath, TextPath} |->
     CASE p = LibPath -> GnuArchive(<<MemberFile(1), MemberFile(2)>>)
       [] p = ObjPath -> ElfIdent \o <<"x">>
       [] p = BadPath -> GnuArchive(<<MemberFile(1)>>) \o Spaces(rld_archive_fhdr_size)
       [] p = LongPath -> rld_archive_ident \o write_header(<<"/", "0">>, 0, 0, 0, 0, 0)
       [] p = TextPath -> <<"i", "n", "t">>]

\* The paths collect_object_files is called with.
CollectPaths == DOMAIN CollectDisk \cup {GonePath, DirPath, ZeroPath}

InitCollect ==
  /\ StartIn(NewCache)
  /\ disk = CollectDisk
  /\ sc = ScOff
  /\ FilesOnly

\* collect_object_files (path), as cache::open and cache::input call it.
CollectObjectFiles(path, beyond) ==
  CacheCall("cache::collect_object_files",
            collect_object_files(World, disk, path, beyond))

NextCollect ==
  \E path \in CollectPaths, beyond \in Beyond : CollectObjectFiles(path, beyond)

SpecCollect == InitCollect /\ [][NextCollect]_vars

\* The path of the call of collect_object_files that is made in this step:
\* that of the archive it creates first.
CollectedPath == heap'[Len(heap) + 1].file.aname

\* C14: when collect_object_files fails, whatever the cause, every image the
\* call has opened is closed: no descriptor the call has opened is left open
\* and no image the call has created has a reference left.
C14_FailureClosesAll ==
  [][last'.call = "cache::collect_object_files" /\ last'.threw # "" =>
       /\ os_fds' \subseteq os_fds
       /\ \A i \in (Len(heap) + 1) .. Len(heap') : heap'[i].references_ = 0]_vars

\* C16: collect_object_files of a path that is no valid archive and names no
\* regular file that is there fails with 'Not found or a regular file'.
C16_NotFound ==
  [][last'.call = "cache::collect_object_files"
       /\ ~ check_file(disk, CollectedPath) =>
       last'.threw = "Not found or a regular file"]_vars

\* C15: however image::write (comp, obj, secs) ends, by a return, by a
\* failure of obj.begin () or by a failure of comp.write, the ELF session of
\* the object is ended and its open is matched by a close: its reference
\* count and its ELF session are what they were before the call.
C15_WriteRestoresObject ==
  rap.phase \in {"written", "failed"} =>
    \A o \in 1 .. Len(rap.image.files) :
      /\ rap.image.files[o].references_ = 0
      /\ ~ rap.image.files[o].elf_

(***************************************************************************)
(* SpecDestroy: a plain image, an archive and an object file are opened,   *)
(* closed and deleted.                                                     *)
(***************************************************************************)
OwnedImages ==
  <<NewImage(ObjPath), NewArchive(LibPath, Len(DiskWith(1)[LibPath])),
    NewObject(ObjPath, Len(DiskWith(1)[ObjPath]))>>

InitDestroy ==
  /\ StartIn([NewCache EXCEPT !.heap = OwnedImages])
  /\ disk = DiskWith(1)
  /\ sc = ScOff
  /\ FilesOnly

\* open () on an image that has not been deleted, by its own class.
OwnedOpen(i, osok) ==
  /\ heap[i].alive
  /\ heap[i].references_ < MaxRefs
  /\ Call("open", i,
          CASE heap[i].kind = "archive" -> archive_open(World, i, FALSE, osok)
            [] heap[i].kind = "object" -> object_open(World, i, osok)
            [] OTHER -> image_open(World, i, FALSE, osok))
  /\ UNCHANGED <<disk, sc>>

\* close () on an image that has not been deleted, by its own class.
OwnedClose(i) ==
  /\ heap[i].alive
  /\ Call("close", i,
          CASE heap[i].kind = "archive" -> archive_close(World, i)
            [] heap[i].kind = "object" -> object_close(World, i)
            [] OTHER -> image_close(World, i))
  /\ UNCHANGED <<disk, sc>>

\* delete of an image: the destructor of its class, and then image::~image.
OwnedDelete(i) ==
  /\ heap[i].alive
  /\ Call("delete", i,
          CASE heap[i].kind = "archive" -> archive_delete(World, i)
            [] heap[i].kind = "object" -> object_delete(World, i)
            [] OTHER -> image_destroy(World, i))
  /\ UNCHANGED <<disk, sc>>

NextDestroy ==
  \/ \E i \in 1 .. Len(heap), osok \in BOOLEAN : OwnedOpen(i, osok)
  \/ \E i \in 1 .. Len(heap) : OwnedClose(i)
  \/ \E i \in 1 .. Len(heap) : OwnedDelete(i)

SpecDestroy == InitDestroy /\ [][NextDestroy]_vars

\* C17: the delete of an image, an archive or an object whose reference
\* count is above zero, a count of one included, ends in the error
\* "references when destructing image".
C17_DestructorRaises ==
  last.call = "delete" /\ last.references_ > 0 =>
    last.threw = "references when destructing image"

(***************************************************************************)
(* copy_file (in, out, size).  c is the call: the bytes of in from its     *)
(* file position on, the bytes written to out, what is left of size, the   *)
(* buffer and the new [] and delete [] made of it, the loop's round, and   *)
(* the r and w of the last ::read and ::write.                             *)
(***************************************************************************)
\* What the OS may do to one round of the loop: nothing, fail the ::read,
\* fail the ::write, or accept one byte less than the ::write is given.
CopyFaults == {"", "read", "write", "short"}

NewCopy(input, size) ==
  [in |-> input, out |-> <<>>, size |-> size, buffer |-> FALSE,
   news |-> 0, deletes |-> 0, round |-> 0, r |-> 0, w |-> 0, data |-> <<>>,
   threw |-> ""]

\* buffer = new uint8_t[COPY_FILE_BUFFER_SIZE].
copy_new(c) == [c EXCEPT !.buffer = TRUE, !.news = @ + 1]

\* ssize_t r = ::read (in.fd (), buffer, l), l the lesser of size and the
\* buffer's size.  The OS hands over at most chunk bytes at a time, and
\* none at the end of the file.
copy_read(c, chunk, fault) ==
  [c EXCEPT !.round = @ + 1,
            !.r = IF fault = "read" THEN -1
                  ELSE Min(Min(c.size, COPY_FILE_BUFFER_SIZE),
                           Min(chunk, Len(c.in)))]

\* if (r < 0) throw ...; if (r == 0) throw ...
copy_read_checked(c) ==
  IF c.r < 0 THEN [c EXCEPT !.threw = "strerror"]
  ELSE IF c.r = 0 THEN [c EXCEPT !.threw = "input too short"]
  ELSE [c EXCEPT !.data = Take(c.in, c.r), !.in = Drop(c.in, c.r)]

\* ssize_t w = ::write (out.fd (), buffer, r).
copy_write(c, fault) ==
  IF c.threw # "" THEN c
  ELSE IF fault = "write" THEN [c EXCEPT !.w = -1]
  ELSE IF fault = "short"
  THEN [c EXCEPT !.w = c.r - 1, !.out = @ \o Take(c.data, c.r - 1)]
  ELSE [c EXCEPT !.w = c.r, !.out = @ \o c.data]

\* if (w < 0) throw ...; if (w != r) throw ...; size -= r.
copy_write_checked(c) ==
  IF c.threw # "" THEN c
  ELSE IF c.w < 0 THEN [c EXCEPT !.threw = "strerror"]
  ELSE IF c.w # c.r THEN [c EXCEPT !.threw = "output trucated"]
  ELSE [c EXCEPT !.size = @ - c.r]

\* while (size) { ... }, the fault falling on the round at.
RECURSIVE copy_loop(_, _, _, _)
copy_loop(c, chunk, fault, at) ==
  IF c.threw # "" \/ c.size = 0 THEN c
  ELSE copy_loop(
         copy_write_checked(
           copy_write(
             copy_read_checked(
               copy_read(c, chunk, IF c.round + 1 = at THEN fault ELSE "")),
             IF c.round + 1 = at THEN fault ELSE "")),
         chunk, fault, at)

\* The end of copy_file as it would be without the delete [] in the catch
\* block.
copy_end_NoDeleteInCatch(c) ==
  IF c.threw # "" THEN c
  ELSE IF c.buffer THEN [c EXCEPT !.buffer = FALSE, !.deletes = @ + 1]
  ELSE c

\* catch (...) { delete [] buffer; throw; } and, past the try block,
\* if (buffer) delete [] buffer.
copy_end(c) ==
  IF c.threw # "" \/ c.buffer
  THEN [c EXCEPT !.buffer = FALSE, !.deletes = @ + 1]
  ELSE c

copy_file(input, size, chunk, fault, at) ==
  copy_end(copy_loop(copy_new(NewCopy(input, size)), chunk, fault, at))

(***************************************************************************)
(* SpecCopy: one call of copy_file.                                        *)
(***************************************************************************)
CopyBytes == <<"a", "b", "c", "d", "e", "f", "g", "h">>

InitCopy ==
  /\ StartIn(NewCache)
  /\ disk = <<>>
  /\ sc = ScOff
  /\ ar = NoAr
  /\ fold = NoFold
  /\ rap = NoRap
  /\ cp \in {[phase |-> "ready", input |-> Take(CopyBytes, n)] :
               n \in 0 .. MaxCopy}

Copied(size, c) ==
  cp' = [phase |-> "done", input |-> cp.input, asked |-> size, call |-> c]

CopyFile(size, chunk, fault, at) ==
  /\ cp.phase = "ready"
  /\ Copied(size, copy_file(cp.input, size, chunk, fault, at))
  /\ UNCHANGED <<heap, paths_, archives_, objects_, opened, disk, os_fds,
                 last, sc, ar, fold, rap>>

NextCopy ==
  \E size \in 0 .. MaxCopy, chunk \in 1 .. COPY_FILE_BUFFER_SIZE,
     fault \in CopyFaults, at \in 1 .. MaxCopy :
    CopyFile(size, chunk, fault, at)

SpecCopy == InitCopy /\ [][NextCopy]_vars

\* C18: copy_file ends in exactly one of three ways, and with the buffer
\* released exactly once in each.  It returns, and then out has been given
\* exactly the first size bytes of in, in order; or it fails with "input
\* too short", and then a ::read has returned 0 while bytes were still to
\* be copied; or it fails with the short-write error, and then a ::write
\* has accepted fewer bytes than were read, or with the OS's error, and then
\* a ::read or a ::write has failed.  Whatever out has been given is the
\* start of in.
C18_CopyOutcomes ==
  cp.phase = "done" =>
    /\ cp.call.news = 1 /\ cp.call.deletes = 1 /\ ~ cp.call.buffer
    /\ cp.call.out = Take(cp.input, Len(cp.call.out))
    /\ cp.call.threw \in {"", "input too short", "output trucated", "strerror"}
    /\ cp.call.threw = "" <=>
         /\ cp.call.size = 0
         /\ Len(cp.call.out) = cp.asked
         /\ cp.call.out = Take(cp.input, cp.asked)
    /\ cp.call.threw = "input too short" <=>
         cp.call.r = 0 /\ cp.call.size > 0 /\ cp.call.round > 0
    /\ cp.call.threw = "output trucated" <=>
         cp.call.r > 0 /\ cp.call.w >= 0 /\ cp.call.w < cp.call.r
    /\ cp.call.threw = "strerror" <=> (cp.call.r < 0 \/ cp.call.w < 0)

\* A copy of more than a buffer's worth that is cut off by a short write in
\* its second round.
C18_Witness ==
  /\ cp.phase = "done"
  /\ cp.asked > COPY_FILE_BUFFER_SIZE
  /\ cp.call.round = 2
  /\ cp.call.threw = "output trucated"
  /\ Len(cp.call.out) > 0
  /\ cp.call.deletes = 1

(***************************************************************************)
(* SpecPaths: paths are added to a cache, the cache is opened, and its     *)
(* objects are asked for by path.  The cache is not closed.                *)
(***************************************************************************)
\* The list get_objects has filled, and the error it has thrown.
Got(g) ==
  last' = [NoCall EXCEPT !.call = "cache::get_objects", !.threw = g.threw,
                         !.list = g.list]

\* cache.get_objects (list).
CacheGetObjects ==
  /\ Got(get_objects(World))
  /\ UNCHANGED <<heap, paths_, archives_, objects_, opened, disk, os_fds, sc,
                 ar, fold, rap, cp>>

NextPaths ==
  \/ \E path \in InputPaths, beyond \in Beyond : CacheAdd(path, beyond)
  \/ \E beyond \in Beyond : CacheOpen(beyond)
  \/ CacheGetObjects

SpecPaths == Init /\ [][NextPaths]_vars

\* C19: get_objects either fills the list with one object for every path of
\* paths_, the i-th the object objects_ holds under the i-th path, a path
\* that is there twice giving the same object twice, or it fails with "path
\* not found in objects"; it fails if and only if a path of paths_ is not a
\* key of objects_.
C19_GetObjects ==
  last.call = "cache::get_objects" =>
    /\ last.threw \in {"", "path not found in objects"}
    /\ last.threw = "path not found in objects" <=>
         \E i \in 1 .. Len(paths_) : paths_[i] \notin DOMAIN objects_
    /\ last.threw = "" =>
         /\ Len(last.list) = Len(paths_)
         /\ \A i \in 1 .. Len(paths_) : last.list[i] = objects_[paths_[i]]

\* The list of a cache that has the same object file twice in paths_.
C19_Witness ==
  /\ last.call = "cache::get_objects"
  /\ last.threw = ""
  /\ Len(paths_) = 2
  /\ paths_[1] = paths_[2]
  /\ Len(last.list) = 2
  /\ last.list[1] = last.list[2]

\* The archives created for the path p: collect_object_files creates one
\* whenever it classifies p.
ClassifiedAs(h, p) ==
  Cardinality({i \in 1 .. Len(h) : h[i].kind = "archive" /\ h[i].file.aname = p})

\* The occurrences of the path p in the paths.
OccurrencesOf(paths, p) == Cardinality({k \in 1 .. Len(paths) : paths[k] = p})

\* No path has been classified before the cache is opened, and once it is
\* every occurrence of a path has been classified exactly once, and every
\* archive of archives_ is open.
ClassifiedOnce(h, paths, archives, isopened) ==
  IF isopened
  THEN /\ \A p \in InputPaths : ClassifiedAs(h, p) = OccurrencesOf(paths, p)
       /\ \A p \in DOMAIN archives : is_open(h[archives[p]])
  ELSE h = <<>>

\* C20: over add and open calls that do not fail, on a cache that is not
\* closed: add appends its path to paths_; a path added before the open is
\* not classified until the open, which classifies every occurrence once,
\* and a path added after it is classified once by the add; every archive
\* of archives_ is open once the cache is; and an open of an opened cache
\* changes nothing.
C20_AddAndOpen ==
  [][last'.call \in {"cache::add", "cache::open"} /\ last'.threw = ""
       /\ ClassifiedOnce(heap, paths_, archives_, opened) =>
       /\ ClassifiedOnce(heap', paths_', archives_', opened')
       /\ last'.call = "cache::add" =>
            /\ Len(paths_') = Len(paths_) + 1
            /\ SubSeq(paths_', 1, Len(paths_)) = paths_
            /\ opened' = opened
            /\ ClassifiedAs(heap', paths_'[Len(paths_')]) =
                 ClassifiedAs(heap, paths_'[Len(paths_')])
                   + (IF opened THEN 1 ELSE 0)
       /\ last'.call = "cache::open" =>
            /\ opened'
            /\ paths_' = paths_
            /\ opened =>
                 /\ heap' = heap
                 /\ archives_' = archives_
                 /\ objects_' = objects_
                 /\ os_fds' = os_fds]_vars

\* An opened cache of an archive and an object file, the archive added to
\* it after it was opened.
C20_Witness ==
  /\ opened
  /\ last.call = "cache::add"
  /\ last.threw = ""
  /\ paths_ = <<ObjPath, LibPath>>
  /\ LibPath \in DOMAIN archives_
  /\ is_open(heap[archives_[LibPath]])
  /\ ClassifiedOnce(heap, paths_, archives_, opened)

(***************************************************************************)
(* SpecOwn: paths are added to a cache, the cache is opened and closed.    *)
(* One of the archives on disk breaks off after its first member.          *)
(***************************************************************************)
OwnPaths == {LibPath, ObjPath, BadPath}

\* An archive or object of the cache's maps has been deleted, or the archive
\* of a member that has not been deleted has.
Dangling(h, archives, objects) ==
  \/ \E p \in DOMAIN archives : ~ h[archives[p]].alive
  \/ \E k \in DOMAIN objects : ~ h[objects[k]].alive
  \/ \E i \in 1 .. Len(h) :
       h[i].alive /\ h[i].archive_ # 0 /\ ~ h[h[i].archive_].alive

\* cache.close (); it is not called on an opened cache that would delete
\* what has been deleted already.
OwnClose ==
  /\ opened => ~ Dangling(heap, archives_, objects_)
  /\ CacheClose

NextOwn ==
  \/ \E path \in OwnPaths, beyond \in Beyond : CacheAdd(path, beyond)
  \/ \E beyond \in Beyond : CacheOpen(beyond)
  \/ OwnClose

SpecOwn == InitCollect /\ [][NextOwn]_vars

\* C21: a close of an opened cache leaves none of the archives and objects
\* the cache has created alive, and no descriptor open, whatever paths_ is,
\* a path that is there twice included.
C21_CloseDestroysAll ==
  [][last'.call = "cache::close" /\ last'.threw = "" /\ opened
       /\ last.call = "cache::open" /\ last.threw = "" =>
       /\ \A i \in 1 .. Len(heap') : ~ heap'[i].alive
       /\ os_fds' = {}]_vars

\* The objects that are there when the close begins and have the archive a.
ObjectsOf(a) ==
  {i \in 1 .. Len(heap) :
     heap[i].alive /\ heap[i].kind = "object" /\ heap[i].archive_ = a}

\* C22: close deletes every object of objects_ before any archive of
\* archives_: no archive is deleted while an object that has it as its
\* archive is still there.  After the close opened is false, and a close of
\* a cache that is not opened deletes nothing.
C22_ObjectsBeforeArchives ==
  [][last'.call = "cache::close" =>
       /\ \A j \in 1 .. Len(last'.deleted) :
            heap[last'.deleted[j]].kind = "archive" =>
              /\ \A k \in j + 1 .. Len(last'.deleted) :
                   heap[last'.deleted[k]].kind = "archive"
              /\ \A i \in ObjectsOf(last'.deleted[j]) :
                   \E k \in 1 .. j - 1 : last'.deleted[k] = i
       /\ ~ opened'
       /\ ~ opened => last'.deleted = <<>> /\ heap' = heap]_vars

\* A close has deleted the two members of an archive and then the archive.
C22_Witness ==
  /\ last.call = "cache::close"
  /\ last.threw = ""
  /\ Len(last.deleted) = 3
  /\ heap[last.deleted[3]].kind = "archive"
  /\ heap[last.deleted[1]].archive_ = last.deleted[3]
  /\ heap[last.deleted[2]].archive_ = last.deleted[3]

\* C23: in every state that add, open and close calls lead to, a failed
\* classification of an archive among them, the archives of archives_ and
\* the objects of objects_ have not been deleted, and no object that has not
\* been deleted has an archive that has.
C23_NoDanglingPointers == ~ Dangling(heap, archives_, objects_)

\* The offset at which load_objects reads its n-th header (from 0) in a file
\* holding bytes: the first follows the identifier, and each next one the
\* header before it by 60 and that header's size rounded up to even.
RECURSIVE LoaderHeaderAt(_, _)
LoaderHeaderAt(bytes, n) ==
  IF n = 0 THEN rld_archive_fhdr_base
  ELSE LoaderHeaderAt(bytes, n - 1) + rld_archive_fhdr_size
         + aligned_size(Field(read_at(bytes, LoaderHeaderAt(bytes, n - 1),
                                      rld_archive_fhdr_size),
                              rld_archive_fhdr_size))

\* C27: in the file create writes, the data of every member and of the
\* extended names are padded to an even length: every header is where
\* load_objects looks for it, 60 and the even-rounded size after the header
\* before it, whatever the sizes of the members.
C27_CreatePadsToEven ==
  ar.phase \in {"created", "loaded"} =>
    \A k \in 1 .. Len(ar.objects) :
      MemberHeaderAt(ar.objects, k) =
        LoaderHeaderAt(disk[ArPath],
                       k - 1 + (IF extended_names_of(ar.objects) # <<>>
                                THEN 1 ELSE 0))

(***************************************************************************)
(* SpecLoad: archive::load_objects on an archive file of up to MaxLoad     *)
(* members of every kind of header.                                        *)
(***************************************************************************)
\* A member: its header with the name field as given, its data, and the
\* newline that pads data of odd length.
PaddedMember(field, data) ==
  write_header(field, 0, 0, 0, 420, Len(data))
    \o data
    \o (IF Len(data) % 2 = 1 THEN <<"\n">> ELSE <<>>)

\* The kinds of member: names that end in '/', of even and of odd size; a
\* name that does not end in '/'; a name that fills the field; a reference
\* into the extended names; the extended names; the symbol table.
LoadMembers ==
  { PaddedMember(<<"a", ".", "o", "/">>, <<>>),
    PaddedMember(<<"b", ".", "o", "/">>, <<"p">>),
    PaddedMember(<<"c", ".", "o">>, <<"p", "q">>),
    PaddedMember([i \in 1 .. rld_archive_fname_size |-> "n"], <<>>),
    PaddedMember(<<"/", "0">>, <<"r">>),
    PaddedMember(<<"/", "/">>, <<"t", ".", "o", "/", "\n">>),
    PaddedMember(<<"/", " ">>, <<"s", "s">>) }

RECURSIVE Concat(_)
Concat(seqs) == IF seqs = <<>> THEN <<>> ELSE Head(seqs) \o Concat(Tail(seqs))

LoadFiles ==
  { rld_archive_ident \o Concat(members) :
      members \in UNION { [1 .. n -> LoadMembers] : n \in 1 .. MaxLoad } }

InitLoad ==
  /\ StartIn(NewCache)
  /\ ar = [phase |-> "given", objects |-> <<>>, found |-> <<>>, threw |-> ""]
  /\ \E bytes \in LoadFiles : disk = [p \in {ArPath} |-> bytes]
  /\ sc = ScOff
  /\ fold = NoFold
  /\ rap = NoRap
  /\ cp = NoCp

\* archive (ArPath).load_objects (objs) on the file given.
LoadObjects(beyond) ==
  /\ ar.phase = "given"
  /\ Loaded(load_objects(disk[ArPath], beyond))
  /\ FilesUnchanged
  /\ UNCHANGED <<disk, fold, rap>>

NextLoad == \E beyond \in Beyond : LoadObjects(beyond)

SpecLoad == InitLoad /\ [][NextLoad]_vars

\* The 60 bytes at offset h of the archive file.
HeaderAt(h) == read_at(disk[ArPath], h, rld_archive_fhdr_size)

\* The value of the size field of the header at h.
RawSize(h) ==
  scan_decimal(SubSeq(HeaderAt(h), rld_archive_size + 1, rld_archive_fhdr_size),
               rld_archive_size_size)

\* The bytes of s before its first '/', all of s when it has none.
UpToSlash(s) ==
  IF \E i \in 1 .. Len(s) : s[i] = "/"
  THEN Take(s, (CHOOSE i \in 1 .. Len(s) :
                  s[i] = "/" /\ \A k \in 1 .. i - 1 : s[k] # "/") - 1)
  ELSE s

\* C24: the object registered for an ordinary member with its header at h
\* has the offset h + 60 and the size the header's size field holds, not
\* that size rounded up to even.
C24_RegisteredRawSize ==
  ar.phase = "loaded" =>
    \A k \in 1 .. Len(ar.found) :
      HeaderAt(ar.found[k].offset - rld_archive_fhdr_size)[1] # "/" =>
        ar.found[k].size = RawSize(ar.found[k].offset - rld_archive_fhdr_size)

\* C25: the name registered for a member whose header does not begin with
\* '/' is the bytes of the 16-byte name field before its first '/', and all
\* 16 when the field has no '/': it is never longer than 16 bytes.
C25_NameWithinField ==
  ar.phase = "loaded" =>
    \A k \in 1 .. Len(ar.found) :
      HeaderAt(ar.found[k].offset - rld_archive_fhdr_size)[1] # "/" =>
        /\ Len(ar.found[k].oname) <= rld_archive_fname_size
        /\ ar.found[k].oname =
             UpToSlash(Take(HeaderAt(ar.found[k].offset - rld_archive_fhdr_size),
                            rld_archive_fname_size))

\* The offsets of the headers of the file, each 60 and the even-rounded size
\* after the one before it, from off to the end of the file.
RECURSIVE Chain(_)
Chain(off) ==
  IF Len(HeaderAt(off)) < rld_archive_fhdr_size THEN <<>>
  ELSE <<off>> \o Chain(off + rld_archive_fhdr_size + 2 * ((RawSize(off) + 1) \div 2))

Headers == Chain(rld_archive_fhdr_base)

\* The header at h is "/<digits>", "//", or of an ordinary member.
IsReference(h) == HeaderAt(h)[1] = "/" /\ IsDigit(HeaderAt(h)[2])
IsNames(h) == HeaderAt(h)[1] = "/" /\ HeaderAt(h)[2] = "/"
IsOrdinary(h) == HeaderAt(h)[1] # "/"

\* The i-th header is a reference, and no header before it is "//".
EarlyReference(i) ==
  /\ IsReference(Headers[i])
  /\ \A j \in 1 .. i - 1 : ~ IsNames(Headers[j])

\* An object is registered at the data of the header at h, under name.
Registered(h, name) ==
  \E k \in 1 .. Len(ar.found) :
    /\ ar.found[k].offset = h + rld_archive_fhdr_size
    /\ ar.found[k].oname = name

find_last_of_colon(path) ==
  IF \E k \in 1 .. Len(path) : path[k] = ":"
  THEN (CHOOSE k \in 1 .. Len(path) :
          /\ path[k] = ":"
          /\ \A j \in k + 1 .. Len(path) : path[j] # ":") - 1
  ELSE -1

\* std::string::substr (pos, n) and substr (pos).
substr(str, pos, n) ==
  SubSeq(str, pos + 1, IF pos + n < Len(str) THEN pos + n ELSE Len(str))

substr_from(str, pos) == SubSeq(str, pos + 1, Len(str))

\* RLD_DRIVE_SEPARATOR on the platforms: the offset a ':' must exceed.
DriveSeparators == {0, 1}

\* file::set (path, is_object) of a file with no names yet, where
\* RLD_DRIVE_SEPARATOR is drive.
file_set(d, path, is_object, drive) ==
  IF path = <<>>
  THEN [aname |-> <<>>, oname |-> <<>>, offset |-> 0, size |-> 0]
  ELSE IF is_object
  THEN IF find_last_of_colon(path) # -1 /\ find_last_of_colon(path) > drive
       THEN [aname |-> substr(path, 0, find_last_of_colon(path) - 1),
             oname |-> substr_from(path, find_last_of_colon(path) + 1),
             offset |-> 0, size |-> 0]
       ELSE [aname |-> <<>>, oname |-> path, offset |-> 0,
             size |-> stat_size(d, path)]
  ELSE [aname |-> path, oname |-> <<>>, offset |-> 0, size |-> stat_size(d, path)]

\* file::is_archive ().
file_is_archive(f) == f.aname # <<>> /\ f.oname = <<>>

\* ~ of a bool: the bool is promoted to int, and every bit of it inverted.
BitNot(b) == - (IF b THEN 1 ELSE 0) - 1

\* file::is_valid (): !aname_.empty () || ~oname_.empty ().
file_is_valid(f) == f.aname # <<>> \/ BitNot(f.oname = <<>>) # 0

\* The image of kind over the file f that the constructor of image makes;
\* when the constructor of its class then throws, image::~image () takes it
\* away again.
Constructed(kind, f, a) ==
  [kind |-> kind, file |-> f, archive_ |-> a, references_ |-> 0, fd_ |-> -1,
   elf_ |-> FALSE, alive |-> TRUE, held |-> 0]

\* archive::archive (path).
archive_new_checked(w) ==
  IF ~ file_is_valid(w.heap[Len(w.heap)].file)
  THEN [image_destroy(w, Len(w.heap)) EXCEPT !.threw = "name is empty"]
  ELSE IF ~ file_is_archive(w.heap[Len(w.heap)].file)
  THEN [image_destroy(w, Len(w.heap)) EXCEPT !.threw = "name is not an archive"]
  ELSE w

archive_new(w, d, path, drive) ==
  archive_new_checked(
    [w EXCEPT !.heap = Append(@, Constructed("archive",
                                             file_set(d, path, FALSE, drive),
                                             0))])

\* object::object (path) and object::object (archive_, name_).
object_new_checked(w) ==
  IF ~ file_is_valid(w.heap[Len(w.heap)].file)
  THEN [image_destroy(w, Len(w.heap)) EXCEPT !.threw = "name is empty"]
  ELSE w

object_new(w, d, path, drive) ==
  object_new_checked(
    [w EXCEPT !.heap = Append(@, Constructed("object",
                                             file_set(d, path, TRUE, drive),
                                             0))])

member_new(w, a, f) ==
  object_new_checked([w EXCEPT !.heap = Append(@, Constructed("object", f, a))])

(***************************************************************************)
(* SpecName: archives and objects are constructed over paths and files,    *)
(* the empty path and the file of no names among them.                     *)
(***************************************************************************)
NamedPaths == {<<>>, LibPath, ObjPath, GonePath}

NamedFiles ==
  [aname : {<<>>, LibPath}, oname : {<<>>, MemberNames[1]},
   offset : {0}, size : {0}]

NewArchiveOf(path, drive) ==
  /\ Len(heap) < MaxNamed
  /\ Call("archive::archive", 0, archive_new(World, disk, path, drive))
  /\ UNCHANGED <<disk, sc>>

NewObjectOf(path, drive) ==
  /\ Len(heap) < MaxNamed
  /\ Call("object::object", 0, object_new(World, disk, path, drive))
  /\ UNCHANGED <<disk, sc>>

NewMemberOf(a, f) ==
  /\ Len(heap) < MaxNamed
  /\ heap[a].kind = "archive" /\ heap[a].alive
  /\ Call("object::object", 0, member_new(World, a, f))
  /\ UNCHANGED <<disk, sc>>

NextName ==
  \/ \E path \in NamedPaths, drive \in DriveSeparators :
       NewArchiveOf(path, drive)
  \/ \E path \in NamedPaths, drive \in DriveSeparators :
       NewObjectOf(path, drive)
  \/ \E a \in 1 .. Len(heap), f \in NamedFiles : NewMemberOf(a, f)

SpecName == Init /\ [][NextName]_vars

\* C30: a file is valid only when one of its names is not empty, and the
\* constructor of an archive or an object over a file of two empty names
\* fails with "name is empty".
C30_EmptyNameRejected ==
  last.call \in {"archive::archive", "object::object"} =>
    /\ file_is_valid(heap[Len(heap)].file) =>
         heap[Len(heap)].file.aname # <<>> \/ heap[Len(heap)].file.oname # <<>>
    /\ heap[Len(heap)].file.aname = <<>> /\ heap[Len(heap)].file.oname = <<>> =>
         last.threw = "name is empty"

\* C28: no group takes a size without an alignment: a fold of a section
\* that has a size and no alignment into a group of no alignment fails with
\* "Invalid alignment", the first such fold into an empty group included,
\* and a group that has a size has an alignment.
C28_NoSizeWithoutAlignment ==
  fold.phase = "folded" =>
    /\ fold.sec.size # 0 /\ fold.sec.align = 0 /\ fold.before.align = 0 =>
         fold.threw = "Invalid alignment"
    /\ fold.g.size > 0 => fold.g.align # 0

\* Two sections that have a size, of the same group of the objects laid out,
\* differ in alignment.
AlignmentsDiffer(app_objects) ==
  \E s \in 0 .. rap_secs - 1, o1 \in 1 .. Len(app_objects),
     o2 \in 1 .. Len(app_objects) :
    \E k1 \in 1 .. Len(sections_of(app_objects[o1], s)),
       k2 \in 1 .. Len(sections_of(app_objects[o2], s)) :
      /\ sections_of(app_objects[o1], s)[k1].size # 0
      /\ sections_of(app_objects[o2], s)[k2].size # 0
      /\ sections_of(app_objects[o1], s)[k1].alignment
           # sections_of(app_objects[o2], s)[k2].alignment

\* C29: layout fails with "Alignments do not match" whenever two sections
\* that have a size and go into the same group differ in alignment, be they
\* of two objects or of one.
C29_MismatchFailsLayout ==
  /\ rap.phase # "new"
  /\ \A o \in 1 .. Len(rap.app_objects) : rap.app_objects[o].valid
  /\ AlignmentsDiffer(rap.app_objects)
  => rap.phase = "failed" /\ rap.image.threw = "Alignments do not match"


(***************************************************************************)
(* SpecSet: file::set parses paths, with and without ':', as objects and   *)
(* as archives.                                                            *)
(***************************************************************************)
MaxPathLen == 4

PathBytes == {"a", "b", ":"}

SetPaths ==
  UNION {[1 .. n -> PathBytes] : n \in 0 .. MaxPathLen} \cup {LibPath, ObjPath}

\* A file of no names is set from path.
FileSet(path, is_object, drive) ==
  /\ last' = [call |-> "file::set", path |-> path, is_object |-> is_object,
              drive |-> drive,
              file |-> file_set(disk, path, is_object, drive)]
  /\ UNCHANGED <<heap, paths_, archives_, objects_, opened, disk, os_fds, sc,
                 ar, fold, rap, cp>>

NextSet ==
  \E path \in SetPaths, is_object \in BOOLEAN, drive \in DriveSeparators :
    FileSet(path, is_object, drive)

SpecSet == Init /\ [][NextSet]_vars

\* The characters of path before, and after, its last ':'.
BeforeColon(path) == SubSeq(path, 1, find_last_of_colon(path))

AfterColon(path) == SubSeq(path, find_last_of_colon(path) + 2, Len(path))

\* C31: set as an object, a path whose last ':' lies beyond the drive
\* separator gives as archive name all characters before that ':' and as
\* object name all characters after it, and any other path gives no archive
\* name and the path as object name; set as an archive, a path gives the
\* path as archive name and no object name.
C31_SetSplitsAtColon ==
  last.call = "file::set" =>
    IF ~ last.is_object
    THEN last.file.aname = last.path /\ last.file.oname = <<>>
    ELSE IF find_last_of_colon(last.path) > last.drive
    THEN /\ last.file.aname = BeforeColon(last.path)
         /\ last.file.oname = AfterColon(last.path)
    ELSE last.file.aname = <<>> /\ last.file.oname = last.path

(***************************************************************************)
(* SpecSelect: a rap::object is made over the sections of an ELF file, of  *)
(* every type, set of flags and name.                                      *)
(***************************************************************************)
SectionTypes == {"SHT_PROGBITS", "SHT_NOBITS", "SHT_SYMTAB"}

SectionFlags == {"SHF_WRITE", "SHF_ALLOC", "SHF_EXECINSTR", "SHF_MERGE"}

SectionNames ==
  {<<".", "t", "e", "x", "t">>, <<".", "c", "t", "o", "r", "s">>,
   <<".", "d", "t", "o", "r", "s">>, <<".", "s", "t", "r", "t", "a", "b">>}

\* obj.get_sections (secs, type, flags_in, flags_out): the sections of the
\* type that have every flag of flags_in and no flag of flags_out, in the
\* order of the file.
get_sections(esecs, type, flags_in, flags_out) ==
  SelectSeq(esecs, LAMBDA sec : /\ sec.type = type
                                /\ flags_in \subseteq sec.flags
                                /\ flags_out \cap sec.flags = {})

\* obj.get_sections (secs, name): the sections of the name.
get_sections_named(esecs, name) ==
  SelectSeq(esecs, LAMBDA sec : sec.name = name)

\* rap::object::object (obj), the six lists taken from the sections esecs of
\* the file.
object_sections(esecs) ==
  [valid |-> TRUE,
   text |-> get_sections(esecs, "SHT_PROGBITS",
                         {"SHF_ALLOC", "SHF_EXECINSTR"}, {}),
   const_ |-> get_sections(esecs, "SHT_PROGBITS", {"SHF_ALLOC", "SHF_MERGE"},
                           {"SHF_WRITE", "SHF_EXECINSTR"}),
   ctor |-> get_sections_named(esecs, <<".", "c", "t", "o", "r", "s">>),
   dtor |-> get_sections_named(esecs, <<".", "d", "t", "o", "r", "s">>),
   data |-> get_sections(esecs, "SHT_PROGBITS", {"SHF_ALLOC", "SHF_WRITE"}, {}),
   bss |-> get_sections(esecs, "SHT_NOBITS", {"SHF_ALLOC", "SHF_WRITE"}, {}),
   relocs_size |-> 0, esyms |-> <<>>]

\* The section of index k and size k of a file.
ElfSection(k, type, flags, name) ==
  [index |-> k, size |-> k, alignment |-> 1, offset |-> 52 + k,
   type |-> type, flags |-> flags, name |-> name]

\* The files of one section of any type, flags and name, alone and after a
\* section of code.
ElfSectionLists ==
  {<<ElfSection(1, e.type, e.flags, e.name)>> :
     e \in [type : SectionTypes, flags : SUBSET SectionFlags,
            name : SectionNames]} \cup
  {<<ElfSection(1, "SHT_PROGBITS", {"SHF_ALLOC", "SHF_EXECINSTR"},
                <<".", "t", "e", "x", "t">>),
     ElfSection(2, e.type, e.flags, e.name)>> :
     e \in [type : SectionTypes, flags : SUBSET SectionFlags,
            name : SectionNames]}

\* A rap::object is constructed over a file of the sections esecs.
RapObjectOver(esecs) ==
  /\ last' = [call |-> "rap::object::object", esecs |-> esecs,
              object |-> rap_object(object_sections(esecs))]
  /\ UNCHANGED <<heap, paths_, archives_, objects_, opened, disk, os_fds, sc,
                 ar, fold, rap, cp>>

NextSelect == \E esecs \in ElfSectionLists : RapObjectOver(esecs)

SpecSelect == Init /\ [][NextSelect]_vars

\* The groups of a rap::object whose list holds the section of an index.
GroupsOf(obj, index) ==
  {s \in 0 .. rap_secs - 1 : files_find(sections_of(obj, s), index)}

\* C32: a rap::object holds every section of its file in at most one of its
\* six lists, so the sizes of its six groups count no section twice.
C32_SectionInOneGroup ==
  last.call = "rap::object::object" =>
    /\ \A k \in 1 .. Len(last.esecs) :
         Cardinality(GroupsOf(last.object.obj, k)) <= 1
    /\ sum_sizes([s \in 1 .. rap_secs |-> last.object.secs[s - 1]])
         <= sum_sizes(last.esecs)

(***************************************************************************)
(* cache::load_symbols.                                                    *)
(***************************************************************************)
\* object::load_symbols (symbols, local) on the object at i.  symok: whether
\* rld::elf::load_symbols reads the symbols of the file without an error.
object_load_symbols(w, i, symok) ==
  IF w.threw # "" THEN w
  ELSE IF symok THEN w
  ELSE [w EXCEPT !.threw = "elf::load_symbols"]

\* The body of the loop of cache::load_symbols on the object at i: open,
\* begin, load_symbols, end and close, none of them in a try block.
load_symbols_of(w, d, i, osok, symok) ==
  object_close(
    elf_end(
      object_load_symbols(elf_begin(object_open(w, i, osok), d, i), i, symok),
      i),
    i)

\* The faults of a call of load_symbols: none, ::open fails for the at-th
\* object of the loop, rld::elf::load_symbols fails for it.
SymbolFaults == {"", "open", "load_symbols"}

RECURSIVE load_symbols_from(_, _, _, _, _, _)
\* cache::load_symbols, the loop over objects_ from its k-th object on.
load_symbols_from(w, d, keys, k, fault, at) ==
  IF k > Len(keys) \/ w.threw # "" THEN w
  ELSE load_symbols_from(
         load_symbols_of(w, d, w.objects_[keys[k]],
                         ~ (fault = "open" /\ at = k),
                         ~ (fault = "load_symbols" /\ at = k)),
         d, keys, k + 1, fault, at)

\* cache::load_symbols (symbols, local).
load_symbols(w, d, fault, at) ==
  load_symbols_from(w, d, InKeyOrder(DOMAIN w.objects_), 1, fault, at)

RECURSIVE HeldIn(_, _)
\* The opens made through the first n archives and objects of the heap that
\* no close has matched.
HeldIn(h, n) == IF n = 0 THEN 0 ELSE h[n].held + HeldIn(h, n - 1)

RECURSIVE load_symbols_peak(_, _, _, _, _, _, _)
\* The most objects cache::load_symbols holds open at a time: the opens, over
\* those made before the call, there are when an open of the loop returns.
load_symbols_peak(w, d, keys, k, fault, at, before) ==
  IF k > Len(keys) \/ w.threw # "" THEN 0
  ELSE IF HeldIn(object_open(w, w.objects_[keys[k]],
                             ~ (fault = "open" /\ at = k)).heap,
                 Len(w.heap)) - before
            > load_symbols_peak(
                load_symbols_of(w, d, w.objects_[keys[k]],
                                ~ (fault = "open" /\ at = k),
                                ~ (fault = "load_symbols" /\ at = k)),
                d, keys, k + 1, fault, at, before)
  THEN HeldIn(object_open(w, w.objects_[keys[k]],
                          ~ (fault = "open" /\ at = k)).heap,
              Len(w.heap)) - before
  ELSE load_symbols_peak(
         load_symbols_of(w, d, w.objects_[keys[k]],
                         ~ (fault = "open" /\ at = k),
                         ~ (fault = "load_symbols" /\ at = k)),
         d, keys, k + 1, fault, at, before)

(***************************************************************************)
(* SpecSymbols: a cache over an archive with a member that is no ELF file  *)
(* and over an object file is opened, its objects are opened and closed by *)
(* users, and their symbols are loaded.                                    *)
(***************************************************************************)
SymbolsDisk ==
  [p \in {LibPath, ObjPath, BadPath} |->
     CASE p = LibPath -> GnuArchive(<<MemberFile(1), MemberFile(2)>>)
       [] p = ObjPath -> ElfIdent \o <<"x">>
       [] p = BadPath ->
            GnuArchive(<<MemberFile(1),
                         [oname |-> MemberNames[3], data |-> <<"t", "x", "t">>]>>)]

InitSymbols ==
  /\ StartIn(NewCache)
  /\ disk = SymbolsDisk
  /\ sc = ScOff
  /\ FilesOnly

\* cache.load_symbols (symbols, local), on a cache that has no pointer to
\* what has been deleted.
CacheLoadSymbols(fault, at) ==
  /\ ~ Dangling(heap, archives_, objects_)
  /\ fault = "" => at = 1
  /\ at <= Cardinality(DOMAIN objects_)
  /\ CacheCall("cache::load_symbols", load_symbols(World, disk, fault, at))

NextSymbols ==
  \/ \E path \in DOMAIN SymbolsDisk : CacheAdd(path, <<>>)
  \/ CacheOpen(<<>>)
  \/ \E i \in 1 .. Len(heap) : ObjectOpen(i, TRUE)
  \/ \E i \in 1 .. Len(heap) : ObjectClose(i)
  \/ \E fault \in SymbolFaults, at \in 1 .. MaxHeap : CacheLoadSymbols(fault, at)

SpecSymbols == InitSymbols /\ [][NextSymbols]_vars

\* C33: when cache::load_symbols ends, with or without an error, every
\* archive and object has the reference count and the descriptor it had
\* before the call and no ELF session it had not, and the call has never
\* held more than one object open at a time.
C33_LoadSymbolsBalanced ==
  [][last'.call = "cache::load_symbols" =>
       /\ \A i \in 1 .. Len(heap) :
            /\ heap'[i].references_ = heap[i].references_
            /\ heap'[i].held = heap[i].held
            /\ heap'[i].elf_ = heap[i].elf_
       /\ os_fds' = os_fds
       /\ \A fault \in SymbolFaults, at \in 1 .. MaxHeap :
            load_symbols_peak(World, disk, InKeyOrder(DOMAIN objects_), 1,
                              fault, at, HeldIn(heap, Len(heap))) <= 1]_vars

(***************************************************************************)
(* image::seek and image::read through the members of an archive.          *)
(***************************************************************************)
\* image::seek (offset) on the image of the file f: the position ::lseek
\* sets the descriptor to, from the start of the file on the disk.
image_seek(f, offset) == f.offset + offset

\* image::read (buffer, size) at the position pos of a descriptor on a file
\* holding bytes: what ::read puts into the buffer.
image_read(bytes, pos, size) == read_at(bytes, pos, size)

(***************************************************************************)
(* SpecStream: the archive of two members is open, and its members' users  *)
(* seek and read through them; all share the descriptor of the archive.    *)
(***************************************************************************)
MaxSeek == 6
MaxRead == 7

InitStream ==
  /\ StartIn(object_open(LoadedArchive(2), 2, TRUE))
  /\ disk = DiskWith(2)
  /\ sc = ScOff
  /\ FilesOnly

\* obj.seek (offset) through the member at i.
MemberSeek(i, offset) ==
  /\ i \in MembersOf(heap, 1)
  /\ heap[1].fd_ >= 0
  /\ last' = [call |-> "image::seek", target |-> i, offset |-> offset,
              pos |-> image_seek(heap[i].file, offset)]
  /\ UNCHANGED <<heap, paths_, archives_, objects_, opened, disk, os_fds, sc,
                 ar, fold, rap, cp>>

\* obj.read (buffer, size) through the member at i, after a seek or a read
\* through a member.  sought: the call before was a seek through the same
\* member, to offset.
MemberRead(i, size) ==
  /\ i \in MembersOf(heap, 1)
  /\ heap[1].fd_ >= 0
  /\ last.call \in {"image::seek", "image::read"}
  /\ last' = [call |-> "image::read", target |-> i, offset |-> last.offset,
              sought |-> last.call = "image::seek" /\ last.target = i,
              size |-> size,
              buffer |-> image_read(disk[file_path(heap[1].file)], last.pos,
                                    size),
              pos |-> last.pos
                        + Len(image_read(disk[file_path(heap[1].file)],
                                         last.pos, size))]
  /\ UNCHANGED <<heap, paths_, archives_, objects_, opened, disk, os_fds, sc,
                 ar, fold, rap, cp>>

NextStream ==
  \/ \E i \in 1 .. Len(heap), offset \in 0 .. MaxSeek : MemberSeek(i, offset)
  \/ \E i \in 1 .. Len(heap), size \in 0 .. MaxRead : MemberRead(i, size)

SpecStream == InitStream /\ [][NextStream]_vars

\* The bytes of the file on the disk at the positions from, from 0, up to
\* but not including to.
BytesBetween(bytes, from, to) == SubSeq(bytes, from + 1, Min(to, Len(bytes)))

\* C34: a read of size bytes through a member, made after a seek to offset
\* through it, gives the bytes of the archive from the member's offset plus
\* offset up to the member's offset plus the lesser of offset + size and the
\* member's size, and so none beyond the member's end.
C34_MemberIsBoundedStream ==
  last.call = "image::read" /\ last.sought =>
    last.buffer =
      BytesBetween(disk[LibPath],
                   heap[last.target].file.offset + last.offset,
                   heap[last.target].file.offset
                     + Min(last.offset + last.size,
                           heap[last.target].file.size))

\* C35: a fold that fails, with "Alignments do not match" or with "Invalid
\* alignment", leaves the group with the size, the alignment and the offset
\* it had before the fold.
C35_FailedFoldLeavesGroup ==
  fold.phase = "folded" /\ fold.threw # "" =>
    /\ fold.threw \in {"Alignments do not match", "Invalid alignment"}
    /\ fold.g.size = fold.before.size
    /\ fold.g.align = fold.before.align
    /\ fold.g.offset = fold.before.offset

\* A fold into a group that has a size and an offset has failed for the
\* alignments.
C35_Witness ==
  /\ fold.phase = "folded"
  /\ fold.threw = "Alignments do not match"
  /\ fold.sec.size # 0
  /\ fold.before.size # 0
  /\ fold.before.offset # 0
  /\ fold.before.align # fold.sec.align
  /\ fold.g = fold.before

\* A fold of a section of no alignment into a group that has a size and no
\* alignment has failed.
C35_WitnessInvalid ==
  /\ fold.phase = "folded"
  /\ fold.threw = "Invalid alignment"
  /\ fold.sec.size # 0 /\ fold.sec.align = 0
  /\ fold.before.size # 0 /\ fold.before.align = 0
  /\ fold.g = fold.before

(***************************************************************************)
(* archive::load_objects, one iteration of its loops at a time.  The state *)
(* of a call is a record of                                                *)
(*   phase                 "outer": at the top of the main loop; "inner":  *)
(*                         at the top of the scan for the extended names;  *)
(*                         "returned"; "failed"                            *)
(*   offset, size, extended_file_names, off, extended_off, header          *)
(*                         the variables of the code                       *)
(*   objs                  the files add_object has registered             *)
(*   threw                 the error the call has ended with               *)
(*   moves                 kept for the properties: by how much an         *)
(*                         iteration so far has moved offset or off        *)
(*   steps                 kept for the bound: the iterations so far       *)
(***************************************************************************)
scan_new ==
  [phase |-> "outer", offset |-> rld_archive_fhdr_base, size |-> 0,
   extended_file_names |-> 0, off |-> 0, extended_off |-> 0, header |-> <<>>,
   objs |-> <<>>, threw |-> "", moves |-> {}, steps |-> 0]

\* archive::read_header (offset, header), the seek of seek_read included:
\* ::lseek fails for a negative offset.
read_header_at(bytes, offset) ==
  IF offset < 0 THEN [is |-> "lseek", header |-> <<>>]
  ELSE read_header(bytes, offset)

\* The call has ended with the error.
scan_failed(s, error) ==
  [s EXCEPT !.phase = "failed", !.threw = error, !.steps = @ + 1]

\* The end of an iteration of the main loop:
\* offset += size + rld_archive_fhdr_size.
scan_next(s, size) ==
  [s EXCEPT !.phase = "outer", !.size = size,
            !.offset = @ + size + rld_archive_fhdr_size,
            !.moves = @ \cup {size + rld_archive_fhdr_size},
            !.steps = @ + 1]

\* add_object (objs, path, offset + rld_archive_fhdr_size, size).
scan_add(s, path, beyond, size) ==
  [s EXCEPT !.objs = Append(@, add_object(path, beyond,
                                          s.offset + rld_archive_fhdr_size,
                                          size))]

\* The name at extended_off of the extended names, as seek_read gives it.
scan_cname(bytes, names, extended_off) ==
  IF names + extended_off < 0 THEN <<>>
  ELSE read_at(bytes, names + extended_off, rld_archive_max_file_size)

\* One iteration of the main loop, up to the scan for the extended names
\* when one is needed.
scan_outer(s, bytes, beyond) ==
  IF read_header_at(bytes, s.offset).is = "short"
  THEN [s EXCEPT !.phase = "returned", !.steps = @ + 1]
  ELSE IF read_header_at(bytes, s.offset).is = "lseek"
  THEN scan_failed(s, "strerror")
  ELSE IF read_header_at(bytes, s.offset).is = "magic"
  THEN scan_failed(s, "Invalid header magic numbers")
  ELSE IF read_header(bytes, s.offset).header[1] # "/"
  THEN scan_next(scan_add(s, read_header(bytes, s.offset).header, beyond,
                          aligned_size(read_header(bytes, s.offset).header)),
                 aligned_size(read_header(bytes, s.offset).header))
  ELSE IF read_header(bytes, s.offset).header[2] = "/"
  THEN scan_next([s EXCEPT !.extended_file_names =
                             s.offset + rld_archive_fhdr_size],
                 aligned_size(read_header(bytes, s.offset).header))
  ELSE IF ~ IsDigit(read_header(bytes, s.offset).header[2])
  THEN scan_next(s, aligned_size(read_header(bytes, s.offset).header))
  ELSE IF s.extended_file_names = 0
  THEN [s EXCEPT !.phase = "inner",
                 !.size = aligned_size(read_header(bytes, s.offset).header),
                 !.extended_off =
                   scan_decimal(Tail(read_header(bytes, s.offset).header),
                                rld_archive_fname_size),
                 !.header = read_header(bytes, s.offset).header,
                 !.off = s.offset,
                 !.steps = @ + 1]
  ELSE scan_next(
         scan_add(s,
                  scan_cname(bytes, s.extended_file_names,
                             scan_decimal(
                               Tail(read_header(bytes, s.offset).header),
                               rld_archive_fname_size)),
                  beyond, aligned_size(read_header(bytes, s.offset).header)),
         aligned_size(read_header(bytes, s.offset).header))

\* The offset an iteration of the scan reads its header at:
\* off += esize + rld_archive_fhdr_size.
scan_off(s) == s.off + aligned_size(s.header) + rld_archive_fhdr_size

\* One iteration of the scan for the extended names; when it finds them the
\* object is registered and the iteration of the main loop ends.
scan_inner(s, bytes, beyond) ==
  IF read_header_at(bytes, scan_off(s)).is = "short"
  THEN scan_failed([s EXCEPT !.moves = @ \cup {scan_off(s) - s.off}],
                   "No GNU extended file name section found")
  ELSE IF read_header_at(bytes, scan_off(s)).is = "lseek"
  THEN scan_failed([s EXCEPT !.moves = @ \cup {scan_off(s) - s.off}],
                   "strerror")
  ELSE IF read_header_at(bytes, scan_off(s)).is = "magic"
  THEN scan_failed([s EXCEPT !.moves = @ \cup {scan_off(s) - s.off}],
                   "Invalid header magic numbers")
  ELSE IF read_header(bytes, scan_off(s)).header[1] = "/"
            /\ read_header(bytes, scan_off(s)).header[2] = "/"
  THEN scan_next(
         scan_add([s EXCEPT !.extended_file_names =
                              scan_off(s) + rld_archive_fhdr_size,
                            !.off = scan_off(s),
                            !.header = read_header(bytes, scan_off(s)).header,
                            !.moves = @ \cup {scan_off(s) - s.off}],
                  scan_cname(bytes, scan_off(s) + rld_archive_fhdr_size,
                             s.extended_off),
                  beyond, s.size),
         s.size)
  ELSE [s EXCEPT !.off = scan_off(s),
                 !.header = read_header(bytes, scan_off(s)).header,
                 !.moves = @ \cup {scan_off(s) - s.off},
                 !.steps = @ + 1]

(***************************************************************************)
(* SpecScan: load_objects runs, iteration by iteration, over archive files *)
(* of members whose size fields hold digits and other bytes.               *)
(***************************************************************************)
MaxScan == 4

\* A header as write_header writes it, but for the bytes of its size field.
HeaderOf(name, size_field) ==
  [i \in 1 .. rld_archive_fhdr_size |->
     IF i > rld_archive_size /\ i <= rld_archive_size + rld_archive_size_size
     THEN Field(size_field, rld_archive_size_size)[i - rld_archive_size]
     ELSE write_header(name, 0, 0, 0, 420, 0)[i]]

\* Members named as an object, as a reference into the extended names, as
\* the extended names and as the symbol table; of size 0 and 2, and of size
\* fields that hold no number.
ScanMembers ==
  { HeaderOf(name, size_field)
      \o (IF size_field = <<"2">> THEN <<"p", "/">> ELSE <<>>) :
    name \in {<<"a", ".", "o", "/">>, <<"/", "0">>, <<"/", "/">>, <<"/", " ">>},
    size_field \in {<<"0">>, <<"2">>, <<"/">>, <<")", "8">>, <<")", "9">>} }

ScanFiles ==
  { rld_archive_ident \o Concat(members) :
      members \in UNION { [1 .. n -> ScanMembers] : n \in 1 .. 2 } }

InitScan ==
  /\ StartIn(NewCache)
  /\ ar = scan_new
  /\ \E bytes \in ScanFiles : disk = [p \in {ArPath} |-> bytes]
  /\ sc = ScOff
  /\ fold = NoFold
  /\ rap = NoRap
  /\ cp = NoCp

\* An iteration of the main loop.
ScanOuter(beyond) ==
  /\ ar.phase = "outer"
  /\ ar.steps < MaxScan
  /\ ar' = scan_outer(ar, disk[ArPath], beyond)
  /\ FilesUnchanged
  /\ UNCHANGED <<disk, fold, rap>>

\* An iteration of the scan for the extended names.
ScanInner(beyond) ==
  /\ ar.phase = "inner"
  /\ ar.steps < MaxScan
  /\ ar' = scan_inner(ar, disk[ArPath], beyond)
  /\ FilesUnchanged
  /\ UNCHANGED <<disk, fold, rap>>

NextScan ==
  \/ ScanOuter(<<>>)
  \/ ScanInner(<<>>)

SpecScan == InitScan /\ [][NextScan]_vars

\* C36: every iteration of the main loop of load_objects, and every
\* iteration of its scan for the extended names, moves the offset it reads
\* at forward by 60 bytes at least, so that the call comes to the end of a
\* finite file and ends there or ends before with an error.
C36_EveryIterationAdvances ==
  \A move \in ar.moves : move >= rld_archive_fhdr_size

(***************************************************************************)
(* cache::add_libraries.                                                   *)
(***************************************************************************)
RECURSIVE cache_add_libraries(_, _, _, _)
\* cache::add_libraries (paths__): input (path) for every path, to the first
\* error.
cache_add_libraries(w, d, paths__, beyond) ==
  IF paths__ = <<>> \/ w.threw # "" THEN w
  ELSE cache_add_libraries(cache_input(w, d, Head(paths__), beyond),
                           d, Tail(paths__), beyond)

(***************************************************************************)
(* SpecLibs: paths are added to a cache and libraries are given to it,     *)
(* before and after it is opened.                                          *)
(***************************************************************************)
\* The lists of libraries add_libraries is given.
LibraryLists ==
  {<<LibPath>>, <<BadPath>>, <<LibPath, BadPath>>, <<BadPath, LibPath>>}

\* cache.add_libraries (paths__); the paths are kept with the call.
CacheAddLibraries(paths__) ==
  /\ Len(cache_add_libraries(World, disk, paths__, <<>>).heap) <= MaxHeap
  /\ heap' = cache_add_libraries(World, disk, paths__, <<>>).heap
  /\ paths_' = cache_add_libraries(World, disk, paths__, <<>>).paths_
  /\ archives_' = cache_add_libraries(World, disk, paths__, <<>>).archives_
  /\ objects_' = cache_add_libraries(World, disk, paths__, <<>>).objects_
  /\ opened' = cache_add_libraries(World, disk, paths__, <<>>).opened
  /\ os_fds' = cache_add_libraries(World, disk, paths__, <<>>).fds
  /\ last' = [call |-> "cache::add_libraries", libraries |-> paths__,
              threw |-> cache_add_libraries(World, disk, paths__, <<>>).threw]
  /\ UNCHANGED <<disk, sc, ar, fold, rap, cp>>

NextLibs ==
  \/ \E path \in DOMAIN SymbolsDisk : CacheAdd(path, <<>>)
  \/ \E paths__ \in LibraryLists : CacheAddLibraries(paths__)
  \/ CacheOpen(<<>>)

SpecLibs == InitSymbols /\ [][NextLibs]_vars

\* The archive of the path p is in archives, and it has members, all of
\* them in objects.
Classified(h, archives, objects, p) ==
  /\ p \in DOMAIN archives
  /\ MembersOf(h, archives[p]) # {}
  /\ \A i \in MembersOf(h, archives[p]) :
       \E k \in DOMAIN objects : objects[k] = i

\* C37: the libraries given to add_libraries are classified once the cache
\* is open: by add_libraries itself when the cache is open already, and by
\* the open () that follows when it is not.
C37_LibrariesClassifiedByOpen ==
  [][/\ last'.call = "cache::add_libraries" /\ last'.threw = "" /\ opened =>
          \A k \in 1 .. Len(last'.libraries) :
            Classified(heap', archives_', objects_', last'.libraries[k])
     /\ last.call = "cache::add_libraries" /\ last.threw = ""
          /\ last'.call = "cache::open" /\ last'.threw = "" =>
          \A k \in 1 .. Len(last.libraries) :
            Classified(heap', archives_', objects_', last.libraries[k])]_vars
=============================================================================
